---- MODULE Spec2Model ----
(***************************************************************************)
(* Model of the authentication and authorization core of the              *)
(* auth-boilerplate server: the request handlers under                    *)
(* server/src/handlers, the tRPC router of server/src/index.ts and the    *)
(* two relations of server/src/db/schema.ts.                              *)
(*                                                                         *)
(* Every handler is an async function issuing a sequence of SQL           *)
(* statements.  One action of the model is one SQL statement together     *)
(* with the local code that follows it up to the next statement, so that  *)
(* concurrent requests interleave exactly at the awaits of the source.    *)
(* Time is counted in hours.                                               *)
(***************************************************************************)
EXTENDS Integers, Sequences, FiniteSets, TLC

\* ------------------------------------------------------------------ bounds
MaxTime == 2
MaxUsers == 3
MaxRandom == 3
MaxResetTokens == 2
MaxRequests == 3

\* ------------------------------------------------------- program constants
ResetTokenTTL == 1
RegisterTokenTTL == 24
LoginTokenTTL == 168
Pbkdf2Iterations == 10000
Pbkdf2KeyLen == 64

\* ---------------------------------------------------------- input domains
Procs == {"r1", "r2"}
Null == "null"
Emails == {"admin@example.com", "a@x.com"}
Usernames == {"adminuser", "alice"}
Passwords == {"adminpassword123", "password123"}
UserIds == 1..MaxUsers

VARIABLES users, nextUserId, resetTokens, nextTokenId, rnd, now, env, call, last, served

vars == <<users, nextUserId, resetTokens, nextTokenId, rnd, now, env, call, last, served>>

\* ----------------------------------------------------------------- crypto
\* crypto.randomBytes(n).toString('hex'): a value never drawn before
RandomBytes(n, serial) == <<"rand", n, serial>>

\* crypto.pbkdf2Sync(password, salt, iterations, keylen, digest).toString('hex')
Pbkdf2Sync(password, salt, iterations, keylen, digest) ==
  <<"pbkdf2", digest, iterations, keylen, password, salt>>

\* createHash('sha256').update(data).digest('hex'); data is a concatenation
Sha256(data) == <<"sha256", data>>

\* `${salt}:${hash}` and its inverse storedHash.split(':')
JoinColon(salt, hash) == <<salt, ":", hash>>
SplitColon(s) == IF Len(s) = 3 /\ s[2] = ":" THEN <<s[1], s[3]>> ELSE <<s>>

\* register.ts hashPassword: PBKDF2-SHA512, 16 byte salt
register_hashPassword(password, serial) ==
  LET salt == RandomBytes(16, serial)
  IN  JoinColon(salt, Pbkdf2Sync(password, salt, Pbkdf2Iterations, Pbkdf2KeyLen, "sha512"))

\* login.ts hashPassword: PBKDF2-SHA256, 16 byte salt
login_hashPassword(password, serial) ==
  LET salt == RandomBytes(16, serial)
  IN  JoinColon(salt, Pbkdf2Sync(password, salt, Pbkdf2Iterations, Pbkdf2KeyLen, "sha256"))

\* login.ts verifyPassword
login_verifyPassword(password, storedHash) ==
  LET parts == SplitColon(storedHash)
  IN  IF Len(parts) < 2 THEN FALSE
      ELSE parts[2] = Pbkdf2Sync(password, parts[1], Pbkdf2Iterations, Pbkdf2KeyLen, "sha256")

\* -------------------------------------------------------- session tokens
\* process.env['JWT_SECRET'] || fallback
register_JWT_SECRET == IF env = "" THEN "fallback-secret-for-tests" ELSE env
login_jwtSecret == IF env = "" THEN "development-secret-key" ELSE env

\* register.ts createJWT: HMAC-SHA256 over header.payload, exp = now + 24h
createJWT(payload, secret) ==
  LET jwtPayload == [user_id |-> payload.user_id, email |-> payload.email,
                     is_admin |-> payload.is_admin,
                     iat |-> now, exp |-> now + RegisterTokenTTL]
  IN  [header |-> "HS256", payload |-> jwtPayload,
       signature |-> <<"hmac-sha256", secret, "HS256", jwtPayload>>]

\* login.ts generateJWT: SHA-256 over header.payload.secret
generateJWT(payload, secret) ==
  [header |-> "HS256", payload |-> payload,
   signature |-> <<"sha256", "HS256", payload, secret>>]

\* ------------------------------------------------------------- relations
\* the columns a handler returns to its caller (PublicUser)
PublicUser_mut(u) == u
PublicUser(u) ==
  [id |-> u.id, email |-> u.email, username |-> u.username,
   first_name |-> u.first_name, last_name |-> u.last_name,
   is_admin |-> u.is_admin, is_active |-> u.is_active,
   email_verified |-> u.email_verified, last_login |-> u.last_login,
   created_at |-> u.created_at, updated_at |-> u.updated_at]

\* users.email and users.username carry UNIQUE constraints: may the row `id`
\* hold (email, username) next to the other rows of table us?
UsersUniqueOk_emailOnly(us, id, email, username) ==
  \A j \in DOMAIN us : j # id => us[j].email # email
UsersUniqueOk(us, id, email, username) ==
  \A j \in DOMAIN us : j # id => us[j].email # email /\ us[j].username # username

StoreUniqueViolation == "duplicate key value violates unique constraint"
StoreForeignKeyViolation == "insert or update violates foreign key constraint"

\* ------------------------------------------------------------- requests
\* call[p] is the request that process p is serving, last the latest response
Idle == [op |-> "none", pc |-> "idle", via |-> "direct", bearer |-> <<>>,
         claims |-> <<>>, input |-> <<>>, loc |-> <<>>, res |-> <<>>]
NoResponse == [op |-> "none", via |-> "direct", bearer |-> <<>>,
               claims |-> <<>>, input |-> <<>>, res |-> <<>>]

Ready(p) == call[p].pc = "idle"

Failure(message) == [ok |-> FALSE, error |-> message, value |-> <<>>]
Success(v) == [ok |-> TRUE, error |-> "", value |-> <<v>>]

Begin(p, op, via, bearer, claims, input) ==
  [op |-> op, pc |-> "begin", via |-> via, bearer |-> bearer,
   claims |-> claims, input |-> <<input>>, loc |-> <<>>, res |-> <<>>]

Finish(c, res) == [c EXCEPT !.pc = "done", !.res = <<res>>]
Goto(c, pc, loc) == [c EXCEPT !.pc = pc, !.loc = <<loc>>]

\* process p moves on to c2; a finished request is answered and forgotten
\* (served counts the requests accepted so far, to bound the run)
Step(p, c2) ==
  /\ IF c2.pc = "done"
     THEN /\ call' = [call EXCEPT ![p] = Idle]
          /\ last' = [op |-> c2.op, via |-> c2.via, bearer |-> c2.bearer,
                      claims |-> c2.claims, input |-> c2.input, res |-> c2.res]
     ELSE /\ call' = [call EXCEPT ![p] = c2]
          /\ UNCHANGED last
  /\ IF call[p].pc = "idle"
     THEN served < MaxRequests /\ served' = served + 1
     ELSE UNCHANGED served

\* --------------------------------------------------------------- seeding
\* create_admin_user.ts createAdminUser, run by setupDatabase on an empty store
createAdminUser ==
  [id |-> 1, email |-> "admin@example.com", username |-> "adminuser",
   password_hash |-> login_hashPassword("adminpassword123", 0),
   first_name |-> Null, last_name |-> Null,
   is_admin |-> TRUE, is_active |-> TRUE, email_verified |-> TRUE,
   last_login |-> <<>>, created_at |-> 0, updated_at |-> 0]

Init ==
  /\ users = (1 :> createAdminUser)
  /\ nextUserId = 2
  /\ resetTokens = <<>>
  /\ nextTokenId = 1
  /\ rnd = 1
  /\ now = 0
  /\ env = ""
  /\ call = [p \in Procs |-> Idle]
  /\ last = NoResponse
  /\ served = 0

\* the same store in a deployment that may set JWT_SECRET
InitEnv ==
  /\ users = (1 :> createAdminUser)
  /\ nextUserId = 2
  /\ resetTokens = <<>>
  /\ nextTokenId = 1
  /\ rnd = 1
  /\ now = 0
  /\ env \in {"", "env-secret"}
  /\ call = [p \in Procs |-> Idle]
  /\ last = NoResponse
  /\ served = 0

\* the seeded store after register has added the account of alice
InitRegistered ==
  /\ users = (1 :> createAdminUser) @@
             (2 :> [id |-> 2, email |-> "a@x.com", username |-> "alice",
                    password_hash |-> register_hashPassword("password123", 1),
                    first_name |-> Null, last_name |-> Null,
                    is_admin |-> FALSE, is_active |-> TRUE, email_verified |-> FALSE,
                    last_login |-> <<>>, created_at |-> 0, updated_at |-> 0])
  /\ nextUserId = 3
  /\ resetTokens = <<>>
  /\ nextTokenId = 1
  /\ rnd = 2
  /\ now = 0
  /\ env = ""
  /\ call = [p \in Procs |-> Idle]
  /\ last = NoResponse
  /\ served = 0

\* a store with two administrators who can both log in: account 1 gave up
\* the seeded email and username through updateProfile, and the setup script,
\* run again, seeded account 2; both have logged in
InitTwoAdmins ==
  /\ users = (1 :> [createAdminUser EXCEPT !.email = "a@x.com", !.username = "alice",
                                            !.last_login = <<0>>]) @@
             (2 :> [createAdminUser EXCEPT !.id = 2,
                                            !.password_hash =
                                               login_hashPassword("adminpassword123", 1),
                                            !.last_login = <<0>>])
  /\ nextUserId = 3
  /\ resetTokens = <<>>
  /\ nextTokenId = 1
  /\ rnd = 2
  /\ now = 0
  /\ env = ""
  /\ call = [p \in Procs |-> Idle]
  /\ last = NoResponse
  /\ served = 0

\* the store of InitRegistered after two forgotPassword calls for a@x.com at
\* hour 0: account 2 owns two unused reset tokens (the two draws made for
\* them are numbered -1 and -2, apart from the draws of the run)
InitIssued ==
  /\ users = (1 :> createAdminUser) @@
             (2 :> [id |-> 2, email |-> "a@x.com", username |-> "alice",
                    password_hash |-> register_hashPassword("password123", 1),
                    first_name |-> Null, last_name |-> Null,
                    is_admin |-> FALSE, is_active |-> TRUE, email_verified |-> FALSE,
                    last_login |-> <<>>, created_at |-> 0, updated_at |-> 0])
  /\ nextUserId = 3
  /\ resetTokens = (1 :> [id |-> 1, user_id |-> 2, token |-> RandomBytes(32, -1),
                          expires_at |-> ResetTokenTTL, used |-> FALSE, created_at |-> 0]) @@
                   (2 :> [id |-> 2, user_id |-> 2, token |-> RandomBytes(32, -2),
                          expires_at |-> ResetTokenTTL, used |-> FALSE, created_at |-> 0])
  /\ nextTokenId = 3
  /\ rnd = 2
  /\ now = 0
  /\ env = ""
  /\ call = [p \in Procs |-> Idle]
  /\ last = NoResponse
  /\ served = 0

\* ---------------------------------------------------------------- clock
Tick ==
  /\ now < MaxTime
  /\ now' = now + 1
  /\ UNCHANGED <<users, nextUserId, resetTokens, nextTokenId, rnd, env, call, last, served>>

\* -------------------------------------------------------------- register
RegisterInputs ==
  [email : Emails, username : Usernames, password : Passwords,
   first_name : {Null}, last_name : {Null}]

\* register.ts line 114 and 115: the error names the field of the row found
register_conflictError_mut(existingUser, input) == "User with this email already exists"
register_conflictError(existingUser, input) ==
  IF existingUser.email = input.email
  THEN "User with this email already exists"
  ELSE "User with this username already exists"

\* register.ts step 1 and 2: uniqueness pre-check, then hash the password
RegisterSelect(p, input) ==
  /\ Ready(p)
  /\ rnd <= MaxRandom
  /\ LET c == Begin(p, "register", "direct", <<>>, <<>>, input)
         existing == {i \in DOMAIN users :
                        users[i].email = input.email \/ users[i].username = input.username}
     IN  IF existing # {}
         THEN \E i \in existing :   \* .limit(1): any one matching row
                /\ Step(p, Finish(c, Failure(register_conflictError(users[i], input))))
                /\ UNCHANGED rnd
         ELSE /\ Step(p,
                    Goto(c, "register_insert",
                         [password_hash |-> register_hashPassword(input.password, rnd)]))
              /\ rnd' = rnd + 1
  /\ UNCHANGED <<users, nextUserId, resetTokens, nextTokenId, now, env>>

\* register.ts step 3 to 5: insert the row, issue the token, return
RegisterInsert(p) ==
  /\ call[p].pc = "register_insert"
  /\ LET c == call[p]
         input == c.input[1]
     IN  IF ~UsersUniqueOk(users, nextUserId, input.email, input.username)
         THEN /\ Step(p, Finish(c, Failure(StoreUniqueViolation)))
              /\ UNCHANGED <<users, nextUserId>>
         ELSE /\ nextUserId <= MaxUsers
              /\ LET user == [id |-> nextUserId, email |-> input.email,
                              username |-> input.username,
                              password_hash |-> c.loc[1].password_hash,
                              first_name |-> input.first_name,
                              last_name |-> input.last_name,
                              is_admin |-> FALSE, is_active |-> TRUE,
                              email_verified |-> FALSE, last_login |-> <<>>,
                              created_at |-> now, updated_at |-> now]
                     token == createJWT([user_id |-> user.id, email |-> user.email,
                                         is_admin |-> user.is_admin], register_JWT_SECRET)
                 IN  /\ users' = (nextUserId :> user) @@ users
                     /\ nextUserId' = nextUserId + 1
                     /\ Step(p,
                           Finish(c, Success([user |-> PublicUser(user), token |-> token])))
  /\ UNCHANGED <<resetTokens, nextTokenId, rnd, now, env>>

\* ----------------------------------------------------------------- login
LoginInputs == [email : Emails, password : Passwords]

\* login.ts line 102 and line 111: the two failures of the credentials
login_unknownEmailError_mut == "User not found"
login_unknownEmailError == "Invalid email or password"
login_wrongPasswordError == "Invalid email or password"

\* login.ts line 115: the is_active guard
login_rejectInactive_mut(user) == FALSE
login_rejectInactive(user) == ~user.is_active

\* login.ts step 1 to 3: find the user, verify the password, check is_active
LoginSelect(p, input) ==
  /\ Ready(p)
  /\ LET c == Begin(p, "login", "direct", <<>>, <<>>, input)
         found == {i \in DOMAIN users : users[i].email = input.email}
     IN  IF found = {}
         THEN Step(p, Finish(c, Failure(login_unknownEmailError)))
         ELSE \E i \in found :
                LET user == users[i]
                IN  IF ~login_verifyPassword(input.password, user.password_hash)
                    THEN Step(p, Finish(c, Failure(login_wrongPasswordError)))
                    ELSE IF login_rejectInactive(user)
                    THEN Step(p, Finish(c, Failure("Account is inactive")))
                    ELSE Step(p, Goto(c, "login_update", [user |-> user, now |-> now]))
  /\ UNCHANGED <<users, nextUserId, resetTokens, nextTokenId, rnd, now, env>>

\* login.ts line 121 to 124: .set({ last_login: new Date(), updated_at: new Date() })
login_set_mut(row, t) == [row EXCEPT !.last_login = <<t>>]
login_set(row, t) == [row EXCEPT !.last_login = <<t>>, !.updated_at = t]

\* login.ts step 4 to 6: bump last_login/updated_at, issue the token, return
LoginUpdate(p) ==
  /\ call[p].pc = "login_update"
  /\ LET c == call[p]
         user == c.loc[1].user
         tokenPayload == [user_id |-> user.id, email |-> user.email,
                          is_admin |-> user.is_admin,
                          iat |-> now, exp |-> now + LoginTokenTTL]
         setAt == c.loc[1].now   \* new Date() of the SET clause, read before the statement runs
         token == generateJWT(tokenPayload, login_jwtSecret)
     IN  /\ users' = [i \in DOMAIN users |->
                        IF i = user.id THEN login_set(users[i], setAt) ELSE users[i]]
         /\ Step(p,
               Finish(c, Success([user |-> [PublicUser(user) EXCEPT !.last_login = <<now>>],
                                  token |-> token])))
  /\ UNCHANGED <<nextUserId, resetTokens, nextTokenId, rnd, now, env>>

\* -------------------------------------------------------- forgotPassword
ForgotPasswordInputs == [email : Emails]

forgotPassword_response ==
  [success |-> TRUE,
   message |-> "If an account with that email exists, a password reset link has been sent."]

\* forgot_password.ts line 23 and line 49: both paths return `response`
forgotPassword_return_mut(found) ==
  IF found THEN forgotPassword_response
  ELSE [success |-> TRUE, message |-> "No account with that email exists."]
forgotPassword_return(found) == forgotPassword_response

\* forgot_password.ts: find the user, draw the token, compute the expiry
ForgotSelect(p, input) ==
  /\ Ready(p)
  /\ rnd <= MaxRandom
  /\ LET c == Begin(p, "forgotPassword", "direct", <<>>, <<>>, input)
         found == {i \in DOMAIN users : users[i].email = input.email}
     IN  IF found = {}
         THEN /\ Step(p, Finish(c, Success(forgotPassword_return(FALSE))))
              /\ UNCHANGED rnd
         ELSE \E i \in found :
                /\ Step(p,
                      Goto(c, "forgot_insert",
                           [user_id |-> users[i].id, token |-> RandomBytes(32, rnd),
                            expires_at |-> now + ResetTokenTTL]))
                /\ rnd' = rnd + 1
  /\ UNCHANGED <<users, nextUserId, resetTokens, nextTokenId, now, env>>

\* forgot_password.ts: insert into password_reset_tokens (user_id references users)
ForgotInsert(p) ==
  /\ call[p].pc = "forgot_insert"
  /\ LET c == call[p]
         l == c.loc[1]
     IN  IF l.user_id \notin DOMAIN users
         THEN /\ Step(p, Finish(c, Failure(StoreForeignKeyViolation)))
              /\ UNCHANGED <<resetTokens, nextTokenId>>
         ELSE /\ nextTokenId <= MaxResetTokens
              /\ resetTokens' = (nextTokenId :>
                    [id |-> nextTokenId, user_id |-> l.user_id, token |-> l.token,
                     expires_at |-> l.expires_at, used |-> FALSE, created_at |-> now])
                    @@ resetTokens
              /\ nextTokenId' = nextTokenId + 1
              /\ Step(p, Finish(c, Success(forgotPassword_return(TRUE))))
  /\ UNCHANGED <<users, nextUserId, rnd, now, env>>

\* --------------------------------------------------------- resetPassword
\* a caller presents a token string that was issued, or one that never was
ResetPasswordInputs ==
  [token : {resetTokens[i].token : i \in DOMAIN resetTokens} \cup {RandomBytes(32, 0)},
   new_password : {"password123"}]

resetPassword_response ==
  [success |-> TRUE,
   message |-> "Password has been reset successfully. Please log in with your new password."]

\* reset_password.ts line 24: a used token is rejected
resetPassword_rejectUsed_mut(resetToken) == FALSE
resetPassword_rejectUsed(resetToken) == resetToken.used

\* reset_password.ts line 28: the token is expired when expires_at < now
resetPassword_expired(expires_at, t) == expires_at < t

\* reset_password.ts line 33 to 35: PBKDF2-SHA512, 32 byte salt, `${salt}:${hash}`
resetPassword_hash(password, serial) ==
  LET salt == RandomBytes(32, serial)
  IN  JoinColon(salt, Pbkdf2Sync(password, salt, Pbkdf2Iterations, Pbkdf2KeyLen, "sha512"))

\* reset_password.ts step 1 to 3: find the token, validate it, hash the password
ResetSelect(p, input) ==
  /\ Ready(p)
  /\ rnd <= MaxRandom
  /\ LET c == Begin(p, "resetPassword", "direct", <<>>, <<>>, input)
         tokenResults == {i \in DOMAIN resetTokens : resetTokens[i].token = input.token}
     IN  IF tokenResults = {}
         THEN /\ Step(p,
                    Finish(c, Failure("Invalid or expired reset token")))
              /\ UNCHANGED rnd
         ELSE \E i \in tokenResults :
                LET resetToken == resetTokens[i]
                IN  IF resetPassword_rejectUsed(resetToken)
                    THEN /\ Step(p,
                               Finish(c, Failure("This reset token has already been used")))
                         /\ UNCHANGED rnd
                    ELSE IF resetPassword_expired(resetToken.expires_at, now)
                    THEN /\ Step(p,
                               Finish(c, Failure("Reset token has expired")))
                         /\ UNCHANGED rnd
                    ELSE /\ Step(p,
                               Goto(c, "reset_update_user",
                                    [resetToken |-> resetToken, now |-> now,
                                     passwordWithSalt |->
                                       resetPassword_hash(input.new_password, rnd)]))
                         /\ rnd' = rnd + 1
  /\ UNCHANGED <<users, nextUserId, resetTokens, nextTokenId, now, env>>

\* reset_password.ts step 4: update users set password_hash, updated_at
ResetUpdateUser(p) ==
  /\ call[p].pc = "reset_update_user"
  /\ LET c == call[p]
         l == c.loc[1]
     IN  /\ users' = [i \in DOMAIN users |->
                        IF i = l.resetToken.user_id
                        THEN [users[i] EXCEPT !.password_hash = l.passwordWithSalt,
                                              !.updated_at = l.now]
                        ELSE users[i]]
         /\ Step(p, [c EXCEPT !.pc = "reset_mark_used"])
  /\ UNCHANGED <<nextUserId, resetTokens, nextTokenId, rnd, now, env>>

\* reset_password.ts line 49: the WHERE clause of the update that marks used
resetPassword_marks_mut(row, resetToken) == row.user_id = resetToken.user_id
resetPassword_marks(row, resetToken) == row.id = resetToken.id

\* reset_password.ts step 5 and 6: update password_reset_tokens set used = true
ResetMarkUsed(p) ==
  /\ call[p].pc = "reset_mark_used"
  /\ LET c == call[p]
         l == c.loc[1]
     IN  /\ resetTokens' = [i \in DOMAIN resetTokens |->
                              IF resetPassword_marks(resetTokens[i], l.resetToken)
                              THEN [resetTokens[i] EXCEPT !.used = TRUE]
                              ELSE resetTokens[i]]
         /\ Step(p, Finish(c, Success(resetPassword_response)))
  /\ UNCHANGED <<users, nextUserId, nextTokenId, rnd, now, env>>

\* ------------------------------------------------------- adminDeleteUser
\* the claims a handler is called with: the seeded account or the next one,
\* with or without the admin flag
JwtPayloads == [user_id : {1, 2}, email : {"admin@example.com"}, is_admin : BOOLEAN]

adminDeleteUser_isAdmin_mut(jwtPayload) == TRUE
adminDeleteUser_isAdmin(jwtPayload) == jwtPayload.is_admin
adminDeleteUser_isSelf_mut(jwtPayload, userId) == FALSE
adminDeleteUser_isSelf(jwtPayload, userId) == jwtPayload.user_id = userId

\* admin_delete_user.ts step 1 to 3: admin check, self check, fetch the target
AdminDeleteSelect(p, via, bearer, jwtPayload, userId) ==
  /\ Ready(p)
  /\ LET c == Begin(p, "adminDeleteUser", via, bearer, <<jwtPayload>>, [id |-> userId])
     IN  Step(p,
           IF ~adminDeleteUser_isAdmin(jwtPayload)
           THEN Finish(c, Failure("Access denied. Admin privileges required."))
           ELSE IF adminDeleteUser_isSelf(jwtPayload, userId)
           THEN Finish(c, Failure("Cannot delete your own account."))
           ELSE IF userId \notin DOMAIN users
           THEN Finish(c, Failure("User not found."))
           ELSE Goto(c, "delete_user", [id |-> userId]))
  /\ UNCHANGED <<users, nextUserId, resetTokens, nextTokenId, rnd, now, env>>

\* schema.ts line 197: user_id references users.id, onDelete: 'cascade'
onDeleteCascade_mut(tokens, userId) == tokens
onDeleteCascade(tokens, userId) ==
  [i \in {j \in DOMAIN tokens : tokens[j].user_id # userId} |-> tokens[i]]

\* admin_delete_user.ts step 4 and 5: delete from users; the reset tokens of
\* the row go with it (ON DELETE CASCADE)
AdminDeleteDelete(p) ==
  /\ call[p].pc = "delete_user"
  /\ LET c == call[p]
         userId == c.input[1].id
     IN  /\ users' = [i \in DOMAIN users \ {userId} |-> users[i]]
         /\ resetTokens' = onDeleteCascade(resetTokens, userId)
         /\ Step(p,
               Finish(c, Success([success |-> TRUE, message |-> "User deleted successfully."])))
  /\ UNCHANGED <<nextUserId, nextTokenId, rnd, now, env>>

\* ------------------------------------------------------- adminCreateUser
NoFields == [f \in {} |-> TRUE]
Has(input, field) == field \in DOMAIN input

AdminCreateUserInputs ==
  {base @@ flags :
     base \in [email : Emails, username : {"alice"}, password : {"password123"},
               first_name : {Null}, last_name : {Null}],
     flags \in {NoFields, [is_admin |-> TRUE]}}

adminCreateUser_isAdmin_mut(jwtPayload) ==
  /\ jwtPayload.is_admin
  /\ jwtPayload.user_id \in DOMAIN users
  /\ users[jwtPayload.user_id].is_admin
adminCreateUser_isAdmin(jwtPayload) == jwtPayload.is_admin

\* admin_create_user.ts: salt + ':' + sha256(salt + password), 16 byte salt
adminCreateUser_hash(password, serial) ==
  LET salt == RandomBytes(16, serial)
  IN  JoinColon(salt, Sha256(<<salt, password>>))

\* admin_create_user.ts step 1 to 3: admin check, uniqueness pre-check, hash
AdminCreateSelect(p, via, bearer, jwtPayload, input) ==
  /\ Ready(p)
  /\ rnd <= MaxRandom
  /\ LET c == Begin(p, "adminCreateUser", via, bearer, <<jwtPayload>>, input)
         existingUsers == {i \in DOMAIN users :
                             users[i].email = input.email \/ users[i].username = input.username}
     IN  IF ~adminCreateUser_isAdmin(jwtPayload)
         THEN /\ Step(p,
                    Finish(c, Failure("Unauthorized: Admin privileges required")))
              /\ UNCHANGED rnd
         ELSE IF existingUsers # {}
         THEN \E i \in existingUsers :   \* existingUsers[0], rows come in no set order
                /\ Step(p,
                      Finish(c, Failure(IF users[i].email = input.email
                                        THEN "Email already exists"
                                        ELSE "Username already exists")))
                /\ UNCHANGED rnd
         ELSE /\ Step(p,
                    Goto(c, "admin_create_insert",
                         [password_hash |-> adminCreateUser_hash(input.password, rnd)]))
              /\ rnd' = rnd + 1
  /\ UNCHANGED <<users, nextUserId, resetTokens, nextTokenId, now, env>>

\* admin_create_user.ts step 4 and 5: insert the row, return it
AdminCreateInsert(p) ==
  /\ call[p].pc = "admin_create_insert"
  /\ LET c == call[p]
         input == c.input[1]
     IN  IF ~UsersUniqueOk(users, nextUserId, input.email, input.username)
         THEN /\ Step(p, Finish(c, Failure(StoreUniqueViolation)))
              /\ UNCHANGED <<users, nextUserId>>
         ELSE /\ nextUserId <= MaxUsers
              /\ LET createdUser ==
                       [id |-> nextUserId, email |-> input.email,
                        username |-> input.username,
                        password_hash |-> c.loc[1].password_hash,
                        first_name |-> input.first_name, last_name |-> input.last_name,
                        is_admin |-> IF Has(input, "is_admin") THEN input.is_admin ELSE FALSE,
                        is_active |-> IF Has(input, "is_active") THEN input.is_active ELSE TRUE,
                        email_verified |-> IF Has(input, "email_verified")
                                           THEN input.email_verified ELSE FALSE,
                        last_login |-> <<>>, created_at |-> now, updated_at |-> now]
                 IN  /\ users' = (nextUserId :> createdUser) @@ users
                     /\ nextUserId' = nextUserId + 1
                     /\ Step(p, Finish(c, Success(PublicUser(createdUser))))
  /\ UNCHANGED <<resetTokens, nextTokenId, rnd, now, env>>

\* --------------------------------------------------------- updateProfile
UpdateProfileInputs == {NoFields, [email |-> "a@x.com"], [first_name |-> "Al"]}

\* the SET clause built from the fields present in the patch, applied to row u
ApplyPatch(u, input, fields, t) ==
  [f \in DOMAIN u |->
     IF f = "updated_at" THEN t
     ELSE IF f \in fields /\ Has(input, f) THEN input[f]
     ELSE u[f]]

updateProfile_fields_mut == {"username", "email", "first_name"}
updateProfile_fields == {"username", "email", "first_name", "last_name"}

\* update_profile.ts, the UPDATE ... RETURNING statement and the return; t is
\* the new Date() of updateData, read before the statement runs
updateProfile_update(c, t) ==
  LET input == c.input[1]
      id == c.claims[1].user_id
  IN  IF id \notin DOMAIN users
      THEN [us |-> users, c |-> Finish(c, Failure("User not found"))]
      ELSE LET row == ApplyPatch(users[id], input, updateProfile_fields, t)
           IN  IF ~UsersUniqueOk(users, id, row.email, row.username)
               THEN [us |-> users, c |-> Finish(c, Failure(StoreUniqueViolation))]
               ELSE [us |-> [users EXCEPT ![id] = row],
                     c |-> Finish(c, Success(PublicUser(row)))]

\* update_profile.ts with a username or an email in the patch: the
\* uniqueness pre-check against the other rows
UpdateProfileSelect(p, via, bearer, jwtPayload, input) ==
  /\ Ready(p)
  /\ Has(input, "username") \/ Has(input, "email")
  /\ LET c == Begin(p, "updateProfile", via, bearer, <<jwtPayload>>, input)
         existingUsers == {i \in DOMAIN users :
                             /\ i # jwtPayload.user_id
                             /\ \/ Has(input, "username") /\ users[i].username = input.username
                                \/ Has(input, "email") /\ users[i].email = input.email}
     IN  IF existingUsers # {}
         THEN \E i \in existingUsers :   \* the first row of the loop
                Step(p,
                  Finish(c, Failure(IF Has(input, "username") /\ users[i].username = input.username
                                    THEN "Username already exists"
                                    ELSE "Email already exists")))
         ELSE Step(p, Goto(c, "update_profile_update", [now |-> now]))
  /\ UNCHANGED <<users, nextUserId, resetTokens, nextTokenId, rnd, now, env>>

\* update_profile.ts after the pre-check: the update
UpdateProfileUpdate(p) ==
  /\ call[p].pc = "update_profile_update"
  /\ LET r == updateProfile_update(call[p], call[p].loc[1].now)
     IN  /\ users' = r.us
         /\ Step(p, r.c)
  /\ UNCHANGED <<nextUserId, resetTokens, nextTokenId, rnd, now, env>>

\* update_profile.ts with neither username nor email in the patch: the
\* update is the first statement
UpdateProfileDirect(p, via, bearer, jwtPayload, input) ==
  /\ Ready(p)
  /\ ~(Has(input, "username") \/ Has(input, "email"))
  /\ LET r == updateProfile_update(Begin(p, "updateProfile", via, bearer, <<jwtPayload>>, input),
                                  now)
     IN  /\ users' = r.us
         /\ Step(p, r.c)
  /\ UNCHANGED <<nextUserId, resetTokens, nextTokenId, rnd, now, env>>

\* ------------------------------------------------------- adminUpdateUser
AdminUpdateUserInputs ==
  {[id |-> i] @@ patch :
     i \in {1, 2},
     patch \in {NoFields, [email |-> "a@x.com"], [is_admin |-> TRUE],
                [is_admin |-> FALSE], [is_active |-> FALSE]}}

adminUpdateUser_isAdmin(jwtPayload) == jwtPayload.is_admin

\* admin_update_user.ts step 3: the self-demotion guard
adminUpdateUser_selfDemotion_mut(jwtPayload, input) == FALSE
adminUpdateUser_selfDemotion(jwtPayload, input) ==
  jwtPayload.user_id = input.id /\ Has(input, "is_admin") /\ input.is_admin = FALSE

adminUpdateUser_fields ==
  {"email", "username", "first_name", "last_name", "is_admin", "is_active", "email_verified"}

adminUpdateUser_checksEmail_mut(input, existingUser) == FALSE
adminUpdateUser_checksEmail(input, existingUser) ==
  Has(input, "email") /\ input.email # existingUser.email
adminUpdateUser_checksUsername(input, existingUser) ==
  Has(input, "username") /\ input.username # existingUser.username

\* admin_update_user.ts step 1 to 3: admin check, fetch the target, self-demotion guard
AdminUpdateSelect(p, via, bearer, jwtPayload, input) ==
  /\ Ready(p)
  /\ LET c == Begin(p, "adminUpdateUser", via, bearer, <<jwtPayload>>, input)
     IN  Step(p,
           IF ~adminUpdateUser_isAdmin(jwtPayload)
           THEN Finish(c, Failure("Access denied. Admin privileges required."))
           ELSE IF input.id \notin DOMAIN users
           THEN Finish(c, Failure("User not found"))
           ELSE IF adminUpdateUser_selfDemotion(jwtPayload, input)
           THEN Finish(c, Failure("Cannot remove admin privileges from your own account"))
           ELSE LET existingUser == users[input.id]
                IN  Goto(c, IF adminUpdateUser_checksEmail(input, existingUser)
                            THEN "admin_update_email_check"
                            ELSE IF adminUpdateUser_checksUsername(input, existingUser)
                            THEN "admin_update_username_check"
                            ELSE "admin_update_update",
                         [existingUser |-> existingUser, now |-> now]))
  /\ UNCHANGED <<users, nextUserId, resetTokens, nextTokenId, rnd, now, env>>

\* admin_update_user.ts step 4, first query: is the new email taken by another row
AdminUpdateEmailCheck(p) ==
  /\ call[p].pc = "admin_update_email_check"
  /\ LET c == call[p]
         input == c.input[1]
         emailCheck == {i \in DOMAIN users : users[i].email = input.email /\ i # input.id}
     IN  Step(p,
           IF emailCheck # {}
           THEN Finish(c, Failure("Email already exists"))
           ELSE IF adminUpdateUser_checksUsername(input, c.loc[1].existingUser)
           THEN [c EXCEPT !.pc = "admin_update_username_check"]
           ELSE Goto(c, "admin_update_update", [c.loc[1] EXCEPT !.now = now]))
  /\ UNCHANGED <<users, nextUserId, resetTokens, nextTokenId, rnd, now, env>>

\* admin_update_user.ts step 4, second query: is the new username taken
AdminUpdateUsernameCheck(p) ==
  /\ call[p].pc = "admin_update_username_check"
  /\ LET c == call[p]
         input == c.input[1]
         usernameCheck == {i \in DOMAIN users :
                             users[i].username = input.username /\ i # input.id}
     IN  Step(p,
           IF usernameCheck # {}
           THEN Finish(c, Failure("Username already exists"))
           ELSE Goto(c, "admin_update_update", [c.loc[1] EXCEPT !.now = now]))
  /\ UNCHANGED <<users, nextUserId, resetTokens, nextTokenId, rnd, now, env>>

\* admin_update_user.ts step 5 to 7: the UPDATE ... RETURNING and the return
\* (updated_at is the new Date() of updateData, read before the statement runs);
\* result[0] is undefined when the row is gone, and reading its id throws
AdminUpdateUpdate(p) ==
  /\ call[p].pc = "admin_update_update"
  /\ LET c == call[p]
         input == c.input[1]
     IN  IF input.id \notin DOMAIN users
         THEN /\ Step(p,
                    Finish(c, Failure("TypeError: undefined is not an object")))
              /\ UNCHANGED users
         ELSE LET row == ApplyPatch(users[input.id], input, adminUpdateUser_fields,
                                    c.loc[1].now)
              IN  IF ~UsersUniqueOk(users, input.id, row.email, row.username)
                  THEN /\ Step(p, Finish(c, Failure(StoreUniqueViolation)))
                       /\ UNCHANGED users
                  ELSE /\ users' = [users EXCEPT ![input.id] = row]
                       /\ Step(p, Finish(c, Success(PublicUser(row))))
  /\ UNCHANGED <<nextUserId, resetTokens, nextTokenId, rnd, now, env>>

\* ---------------------------------------------------------- adminGetUser
adminGetUser_isAdmin(jwtPayload) == jwtPayload.is_admin

\* admin_get_user.ts
AdminGetUser(p, via, bearer, jwtPayload, userId) ==
  /\ Ready(p)
  /\ LET c == Begin(p, "adminGetUser", via, bearer, <<jwtPayload>>, [id |-> userId])
     IN  Step(p,
           IF ~adminGetUser_isAdmin(jwtPayload)
           THEN Finish(c, Failure("Unauthorized: Admin access required"))
           ELSE IF userId \notin DOMAIN users
           THEN Finish(c, Failure("User not found"))
           ELSE Finish(c, Success(PublicUser(users[userId]))))
  /\ UNCHANGED <<users, nextUserId, resetTokens, nextTokenId, rnd, now, env>>

\* --------------------------------------------------------- adminGetUsers
PaginationInputs == {NoFields, [page |-> 2, limit |-> 1]}

adminGetUsers_isAdmin(jwtPayload) == jwtPayload.is_admin

\* input.page || 1 and input.limit || 10
adminGetUsers_page(input) == IF Has(input, "page") /\ input.page # 0 THEN input.page ELSE 1
adminGetUsers_limit(input) == IF Has(input, "limit") /\ input.limit # 0 THEN input.limit ELSE 10

\* schema.ts paginationInputSchema: page a positive integer, limit a positive
\* integer of at most 100, both optional
PaginationMaxLimit == 100
paginationInputSchema(input) ==
  /\ Has(input, "page") => input.page >= 1
  /\ Has(input, "limit") => input.limit >= 1 /\ input.limit <= PaginationMaxLimit

\* Math.ceil(total / limit) for a positive limit
adminGetUsers_totalPages_mut(total, limit) == total \div limit
adminGetUsers_totalPages(total, limit) == (total + limit - 1) \div limit

\* admin_get_users.ts step 1 to 3: admin check, pagination parameters, count(*)
AdminGetUsersCount(p, via, bearer, jwtPayload, input) ==
  /\ Ready(p)
  /\ LET c == Begin(p, "adminGetUsers", via, bearer, <<jwtPayload>>, input)
     IN  Step(p,
           IF ~adminGetUsers_isAdmin(jwtPayload)
           THEN Finish(c, Failure("Access denied: Admin privileges required"))
           ELSE Goto(c, "admin_get_users_select",
                     [page |-> adminGetUsers_page(input), limit |-> adminGetUsers_limit(input),
                      total |-> Cardinality(DOMAIN users)]))
  /\ UNCHANGED <<users, nextUserId, resetTokens, nextTokenId, rnd, now, env>>

\* admin_get_users.ts step 4 and 5: SELECT ... LIMIT limit OFFSET offset with
\* no ORDER BY (the rows come in an order the store chooses), and the return;
\* the store refuses a negative OFFSET and a negative LIMIT
AdminGetUsersSelect(p) ==
  /\ call[p].pc = "admin_get_users_select"
  /\ LET c == call[p]
         l == c.loc[1]
         n == Cardinality(DOMAIN users)
         offset == (l.page - 1) * l.limit
     IN  IF offset < 0
         THEN Step(p, Finish(c, Failure("OFFSET must not be negative")))
         ELSE IF l.limit < 0
         THEN Step(p, Finish(c, Failure("LIMIT must not be negative")))
         ELSE
         \E order \in {f \in [1..n -> DOMAIN users] : \A a, b \in 1..n : a # b => f[a] # f[b]} :
           LET rows == [k \in 1..n |-> PublicUser(users[order[k]])]
               slice == SubSeq(rows, offset + 1,
                               IF offset + l.limit < n THEN offset + l.limit ELSE n)
           IN  Step(p,
                 Finish(c, Success([users |-> slice, total |-> l.total, page |-> l.page,
                                    limit |-> l.limit,
                                    total_pages |-> adminGetUsers_totalPages(l.total, l.limit)])))
  /\ UNCHANGED <<users, nextUserId, resetTokens, nextTokenId, rnd, now, env>>

\* -------------------------------------------------------- getCurrentUser
\* get_current_user.ts
GetCurrentUser(p, via, bearer, jwtPayload) ==
  /\ Ready(p)
  /\ LET c == Begin(p, "getCurrentUser", via, bearer, <<jwtPayload>>, NoFields)
         userId == jwtPayload.user_id
     IN  Step(p,
           IF userId \notin DOMAIN users
           THEN Finish(c, Failure("User with id ${userId} not found"))
           ELSE Finish(c, Success(PublicUser(users[userId]))))
  /\ UNCHANGED <<users, nextUserId, resetTokens, nextTokenId, rnd, now, env>>

\* -------------------------------------------------------- changePassword
ChangePasswordInputs == [current_password : Passwords, new_password : {"password123"}]

\* change_password.ts hashPassword: sha256(password + salt)
changePassword_hashPassword(password, salt) == Sha256(<<password, salt>>)

\* change_password.ts verifyPassword
changePassword_verifyPassword(password, hashedPassword) ==
  LET parts == SplitColon(hashedPassword)
  IN  IF Len(parts) < 2 THEN FALSE
      ELSE changePassword_hashPassword(password, parts[1]) = parts[2]

\* change_password.ts createPasswordHash: 32 byte salt
createPasswordHash(password, serial) ==
  LET salt == RandomBytes(32, serial)
  IN  JoinColon(salt, changePassword_hashPassword(password, salt))

\* change_password.ts: fetch the user, check is_active, verify, hash
ChangePasswordSelect(p, via, bearer, jwtPayload, input) ==
  /\ Ready(p)
  /\ rnd <= MaxRandom
  /\ LET c == Begin(p, "changePassword", via, bearer, <<jwtPayload>>, input)
         userId == jwtPayload.user_id
     IN  IF userId \notin DOMAIN users
         THEN /\ Step(p, Finish(c, Failure("User not found")))
              /\ UNCHANGED rnd
         ELSE IF ~users[userId].is_active
         THEN /\ Step(p, Finish(c, Failure("User account is deactivated")))
              /\ UNCHANGED rnd
         ELSE IF ~changePassword_verifyPassword(input.current_password,
                                                users[userId].password_hash)
         THEN /\ Step(p,
                    Finish(c, Failure("Current password is incorrect")))
              /\ UNCHANGED rnd
         ELSE /\ Step(p,
                    Goto(c, "change_password_update",
                         [newPasswordHash |-> createPasswordHash(input.new_password, rnd),
                          now |-> now]))
              /\ rnd' = rnd + 1
  /\ UNCHANGED <<users, nextUserId, resetTokens, nextTokenId, now, env>>

\* change_password.ts: update users set password_hash, updated_at
ChangePasswordUpdate(p) ==
  /\ call[p].pc = "change_password_update"
  /\ LET c == call[p]
         userId == c.claims[1].user_id
     IN  /\ users' = [i \in DOMAIN users |->
                        IF i = userId
                        THEN [users[i] EXCEPT !.password_hash = c.loc[1].newPasswordHash,
                                              !.updated_at = c.loc[1].now]
                        ELSE users[i]]
         /\ Step(p,
               Finish(c, Success([success |-> TRUE,
                                  message |-> "Password changed successfully."])))
  /\ UNCHANGED <<nextUserId, resetTokens, nextTokenId, rnd, now, env>>

\* ---------------------------------------------------------------- router
\* login.ts verifyJWT
verifyJWT(token, secret) ==
  IF token.signature # <<"sha256", token.header, token.payload, secret>>
  THEN [ok |-> FALSE, error |-> "Invalid token signature", payload |-> <<>>]
  ELSE IF token.payload.exp # 0 /\ token.payload.exp < now   \* payload.exp && payload.exp < now
  THEN [ok |-> FALSE, error |-> "Token expired", payload |-> <<>>]
  ELSE [ok |-> TRUE, error |-> "", payload |-> <<token.payload>>]

\* a caller of verifyJWT: the token is verified with the secret login signs
\* with, the payload is returned or the error thrown
VerifyToken(p, token) ==
  /\ Ready(p)
  /\ LET c == Begin(p, "verifyJWT", "direct", <<token>>, <<>>, NoFields)
         r == verifyJWT(token, login_jwtSecret)
     IN  Step(p, Finish(c, IF r.ok THEN Success(r.payload[1]) ELSE Failure(r.error)))
  /\ UNCHANGED <<users, nextUserId, resetTokens, nextTokenId, rnd, now, env>>

\* the session tokens some caller has been handed so far
HeldTokens ==
  IF last.op \in {"register", "login"} /\ last.res[1].ok
  THEN {last.res[1].value[1].token} ELSE {}

\* what a request carries as bearer credential: nothing, or a held token
Bearers == {<<>>} \cup {<<t>> : t \in HeldTokens}

\* index.ts authenticatedProcedure: the context user is a fixed payload
mockJwtPayload == [user_id |-> 1, email |-> "user@example.com", is_admin |-> FALSE]
authenticatedProcedure(bearer) == mockJwtPayload

\* index.ts getCurrentUser route
RouteGetCurrentUser(p, bearer) ==
  GetCurrentUser(p, "route", bearer, authenticatedProcedure(bearer))

\* index.ts updateProfile route
RouteUpdateProfile(p, bearer, input) ==
  \/ UpdateProfileSelect(p, "route", bearer, authenticatedProcedure(bearer), input)
  \/ UpdateProfileDirect(p, "route", bearer, authenticatedProcedure(bearer), input)

\* index.ts changePassword route
RouteChangePassword(p, bearer, input) ==
  ChangePasswordSelect(p, "route", bearer, authenticatedProcedure(bearer), input)

AdminRoutes ==
  {"adminGetUsers", "adminGetUser", "adminCreateUser", "adminUpdateUser", "adminDeleteUser"}

\* index.ts adminProcedure in front of the admin routes
RouteAdmin(p, bearer, route) ==
  LET ctxUser == authenticatedProcedure(bearer)
  IN  IF ~ctxUser.is_admin
      THEN /\ Ready(p)
           /\ Step(p,
                 Finish(Begin(p, route, "route", bearer, <<ctxUser>>, NoFields),
                        Failure("Admin access required")))
           /\ UNCHANGED <<users, nextUserId, resetTokens, nextTokenId, rnd, now, env>>
      ELSE \/ /\ route = "adminGetUsers"
              /\ \E input \in PaginationInputs : AdminGetUsersCount(p, "route", bearer, ctxUser, input)
           \/ /\ route = "adminGetUser"
              /\ \E id \in UserIds : AdminGetUser(p, "route", bearer, ctxUser, id)
           \/ /\ route = "adminCreateUser"
              /\ \E input \in AdminCreateUserInputs :
                   AdminCreateSelect(p, "route", bearer, ctxUser, input)
           \/ /\ route = "adminUpdateUser"
              /\ \E input \in AdminUpdateUserInputs :
                   AdminUpdateSelect(p, "route", bearer, ctxUser, input)
           \/ /\ route = "adminDeleteUser"
              /\ \E id \in UserIds : AdminDeleteSelect(p, "route", bearer, ctxUser, id)

\* ------------------------------------------------------- specifications
NextAuth ==
  \/ Tick
  \/ \E p \in Procs, input \in RegisterInputs : RegisterSelect(p, input)
  \/ \E p \in Procs : RegisterInsert(p)
  \/ \E p \in Procs, input \in LoginInputs : LoginSelect(p, input)
  \/ \E p \in Procs : LoginUpdate(p)

SpecAuth == InitEnv /\ [][NextAuth]_vars

NextReset ==
  \/ Tick
  \/ \E p \in Procs, input \in ForgotPasswordInputs : ForgotSelect(p, input)
  \/ \E p \in Procs : ForgotInsert(p)
  \/ \E p \in Procs, input \in ResetPasswordInputs : ResetSelect(p, input)
  \/ \E p \in Procs : ResetUpdateUser(p)
  \/ \E p \in Procs : ResetMarkUsed(p)

SpecReset == Init /\ [][NextReset]_vars

\* the writers of email and username, racing each other
IdentityInputs == [email : Emails, username : Usernames, password : {"password123"},
                   first_name : {Null}, last_name : {Null}]
IdentityPatches ==
  {[email |-> e] : e \in Emails} \cup {[username |-> u] : u \in Usernames}
  \cup {[username |-> u, email |-> e] : u \in Usernames, e \in Emails}
AdminClaims == [user_id |-> 1, email |-> "admin@example.com", is_admin |-> TRUE]
UserClaims == {[user_id |-> i, email |-> "a@x.com", is_admin |-> FALSE] : i \in {1, 2}}

NextUsers ==
  \/ \E p \in Procs, input \in IdentityInputs : RegisterSelect(p, input)
  \/ \E p \in Procs : RegisterInsert(p)
  \/ \E p \in Procs, input \in IdentityInputs :
        AdminCreateSelect(p, "direct", <<>>, AdminClaims, input)
  \/ \E p \in Procs : AdminCreateInsert(p)
  \/ \E p \in Procs, jwtPayload \in UserClaims, input \in IdentityPatches :
        UpdateProfileSelect(p, "direct", <<>>, jwtPayload, input)
  \/ \E p \in Procs : UpdateProfileUpdate(p)
  \/ \E p \in Procs, i \in {1, 2}, patch \in IdentityPatches :
        AdminUpdateSelect(p, "direct", <<>>, AdminClaims, [id |-> i] @@ patch)
  \/ \E p \in Procs : AdminUpdateEmailCheck(p)
  \/ \E p \in Procs : AdminUpdateUsernameCheck(p)
  \/ \E p \in Procs : AdminUpdateUpdate(p)
  \/ \E p \in Procs, userId \in {1, 2} :
        AdminDeleteSelect(p, "direct", <<>>, AdminClaims, userId)
  \/ \E p \in Procs : AdminDeleteDelete(p)

SpecUsers == Init /\ [][NextUsers]_vars

\* the admin service, called with any claims
NextAdmin ==
  \/ \E p \in Procs, jwtPayload \in JwtPayloads, input \in PaginationInputs :
        AdminGetUsersCount(p, "direct", <<>>, jwtPayload, input)
  \/ \E p \in Procs : AdminGetUsersSelect(p)
  \/ \E p \in Procs, jwtPayload \in JwtPayloads, userId \in {1, 2} :
        AdminGetUser(p, "direct", <<>>, jwtPayload, userId)
  \/ \E p \in Procs, jwtPayload \in JwtPayloads, input \in AdminCreateUserInputs :
        AdminCreateSelect(p, "direct", <<>>, jwtPayload, input)
  \/ \E p \in Procs : AdminCreateInsert(p)
  \/ \E p \in Procs, jwtPayload \in JwtPayloads, input \in AdminUpdateUserInputs :
        AdminUpdateSelect(p, "direct", <<>>, jwtPayload, input)
  \/ \E p \in Procs : AdminUpdateEmailCheck(p)
  \/ \E p \in Procs : AdminUpdateUpdate(p)
  \/ \E p \in Procs, jwtPayload \in JwtPayloads, userId \in {1, 2} :
        AdminDeleteSelect(p, "direct", <<>>, jwtPayload, userId)
  \/ \E p \in Procs : AdminDeleteDelete(p)

SpecAdmin == Init /\ [][NextAdmin]_vars

\* the routes of the tRPC router, next to register and login
NextRoute ==
  \/ Tick
  \/ \E p \in Procs, input \in IdentityInputs : RegisterSelect(p, input)
  \/ \E p \in Procs : RegisterInsert(p)
  \/ \E p \in Procs, input \in LoginInputs : LoginSelect(p, input)
  \/ \E p \in Procs : LoginUpdate(p)
  \/ \E p \in Procs, bearer \in Bearers : RouteGetCurrentUser(p, bearer)
  \/ \E p \in Procs, bearer \in Bearers, input \in UpdateProfileInputs :
        RouteUpdateProfile(p, bearer, input)
  \/ \E p \in Procs : UpdateProfileUpdate(p)
  \/ \E p \in Procs, bearer \in Bearers, input \in ChangePasswordInputs :
        RouteChangePassword(p, bearer, input)
  \/ \E p \in Procs, bearer \in Bearers, route \in AdminRoutes : RouteAdmin(p, bearer, route)

SpecRoute == Init /\ [][NextRoute]_vars


\* login next to an administrator switching the seeded account off and on
ActivationPatches == {[id |-> 1, is_active |-> FALSE], [id |-> 1, is_active |-> TRUE]}

NextLogin ==
  \/ Tick
  \/ \E p \in Procs, input \in LoginInputs : LoginSelect(p, input)
  \/ \E p \in Procs : LoginUpdate(p)
  \/ \E p \in Procs, input \in ActivationPatches :
        AdminUpdateSelect(p, "direct", <<>>, AdminClaims, input)
  \/ \E p \in Procs : AdminUpdateUpdate(p)

SpecLogin == Init /\ [][NextLogin]_vars

\* tokens a caller may present besides the ones it was handed: signed by
\* generateJWT with the secret of the process or with another one, expiring
\* at any later hour of the run
PresentedTokens ==
  {generateJWT([user_id |-> 1, email |-> "admin@example.com", is_admin |-> TRUE,
                iat |-> 0, exp |-> e], secret) :
     e \in 1..(MaxTime + 1), secret \in {login_jwtSecret, "another-secret"}}

NextToken ==
  \/ Tick
  \/ \E p \in Procs : RegisterSelect(p, [email |-> "a@x.com", username |-> "alice",
                                         password |-> "password123",
                                         first_name |-> Null, last_name |-> Null])
  \/ \E p \in Procs : RegisterInsert(p)
  \/ \E p \in Procs : LoginSelect(p, [email |-> "admin@example.com",
                                      password |-> "adminpassword123"])
  \/ \E p \in Procs : LoginUpdate(p)
  \/ \E p \in Procs, token \in HeldTokens \cup PresentedTokens : VerifyToken(p, token)

SpecToken == InitEnv /\ [][NextToken]_vars

\* password recovery and change, followed by login
NextRecover ==
  \/ Tick
  \/ \E p \in Procs : ForgotSelect(p, [email |-> "admin@example.com"])
  \/ \E p \in Procs : ForgotInsert(p)
  \/ \E p \in Procs, input \in ResetPasswordInputs : ResetSelect(p, input)
  \/ \E p \in Procs : ResetUpdateUser(p)
  \/ \E p \in Procs : ResetMarkUsed(p)
  \/ \E p \in Procs, input \in ChangePasswordInputs :
        ChangePasswordSelect(p, "direct", <<>>, AdminClaims, input)
  \/ \E p \in Procs, password \in Passwords :
        LoginSelect(p, [email |-> "admin@example.com", password |-> password])
  \/ \E p \in Procs : LoginUpdate(p)

SpecRecover == Init /\ [][NextRecover]_vars

\* reset tokens of two accounts, and the administrator deleting accounts
NextCascade ==
  \/ \E p \in Procs, input \in ForgotPasswordInputs : ForgotSelect(p, input)
  \/ \E p \in Procs : ForgotInsert(p)
  \/ \E p \in Procs, input \in ResetPasswordInputs : ResetSelect(p, input)
  \/ \E p \in Procs : ResetUpdateUser(p)
  \/ \E p \in Procs : ResetMarkUsed(p)
  \/ \E p \in Procs, userId \in {1, 2} :
        AdminDeleteSelect(p, "direct", <<>>, AdminClaims, userId)
  \/ \E p \in Procs : AdminDeleteDelete(p)

SpecCascade == InitRegistered /\ [][NextCascade]_vars

\* forgotPassword for the email of an account, the same email in another
\* case and an unknown email, next to an administrator switching the
\* account off and on
NextForgot ==
  \/ Tick
  \/ \E p \in Procs, email \in Emails \cup {"Admin@Example.com"} :
        ForgotSelect(p, [email |-> email])
  \/ \E p \in Procs : ForgotInsert(p)
  \/ \E p \in Procs, input \in ActivationPatches :
        AdminUpdateSelect(p, "direct", <<>>, AdminClaims, input)
  \/ \E p \in Procs : AdminUpdateUpdate(p)

SpecForgot == Init /\ [][NextForgot]_vars

\* updateProfile called with the claims of the two accounts and of an id
\* that no account has, with patches that set, clear and leave out fields
ProfilePatches ==
  {NoFields, [first_name |-> "Al"], [first_name |-> Null, last_name |-> "Lee"],
   [email |-> "a@x.com"], [username |-> "bob"], [username |-> "alice", last_name |-> Null]}
ProfileClaims == {[user_id |-> i, email |-> "a@x.com", is_admin |-> FALSE] : i \in 1..3}

NextProfile ==
  \/ Tick
  \/ \E p \in Procs, jwtPayload \in ProfileClaims, input \in ProfilePatches :
        UpdateProfileSelect(p, "direct", <<>>, jwtPayload, input)
  \/ \E p \in Procs : UpdateProfileUpdate(p)
  \/ \E p \in Procs, jwtPayload \in ProfileClaims, input \in ProfilePatches :
        UpdateProfileDirect(p, "direct", <<>>, jwtPayload, input)

SpecProfile == InitRegistered /\ [][NextProfile]_vars

\* updateProfile and adminUpdateUser over two accounts, with patches that
\* take the email or the username of the other account, repeat the target's
\* own, or take a free username
ConflictPatches == IdentityPatches \cup {[username |-> "bob"]}

NextConflict ==
  \/ \E p \in Procs, jwtPayload \in UserClaims, input \in ConflictPatches :
        UpdateProfileSelect(p, "direct", <<>>, jwtPayload, input)
  \/ \E p \in Procs : UpdateProfileUpdate(p)
  \/ \E p \in Procs, i \in {1, 2}, patch \in ConflictPatches :
        AdminUpdateSelect(p, "direct", <<>>, AdminClaims, [id |-> i] @@ patch)
  \/ \E p \in Procs : AdminUpdateEmailCheck(p)
  \/ \E p \in Procs : AdminUpdateUsernameCheck(p)
  \/ \E p \in Procs : AdminUpdateUpdate(p)

SpecConflict == InitRegistered /\ [][NextConflict]_vars

\* adminGetUsers on a store that administrators fill and empty, with
\* pagination inputs inside and outside the range of paginationInputSchema
ListInputs ==
  {NoFields, [page |-> 1, limit |-> 1], [page |-> 2, limit |-> 1], [page |-> 2, limit |-> 2],
   [page |-> 5, limit |-> 5], [page |-> 0], [limit |-> 0], [page |-> -1], [limit |-> -1],
   [limit |-> PaginationMaxLimit + 1]}
ListClaims == {[user_id |-> i, email |-> "admin@example.com", is_admin |-> TRUE] : i \in {1, 2}}

NextList ==
  \/ \E p \in Procs, input \in ListInputs :
        AdminGetUsersCount(p, "direct", <<>>, AdminClaims, input)
  \/ \E p \in Procs : AdminGetUsersSelect(p)
  \/ \E p \in Procs :
        AdminCreateSelect(p, "direct", <<>>, AdminClaims,
                          [email |-> "b@x.com", username |-> "bob", password |-> "password123",
                           first_name |-> Null, last_name |-> Null])
  \/ \E p \in Procs : AdminCreateInsert(p)
  \/ \E p \in Procs, jwtPayload \in ListClaims, userId \in {1, 2} :
        AdminDeleteSelect(p, "direct", <<>>, jwtPayload, userId)
  \/ \E p \in Procs : AdminDeleteDelete(p)

SpecList == InitRegistered /\ [][NextList]_vars

\* every operation that returns an account, called once with input it accepts
NextPublic ==
  \/ \E p \in Procs :
        RegisterSelect(p, [email |-> "b@x.com", username |-> "bob", password |-> "password123",
                           first_name |-> Null, last_name |-> Null])
  \/ \E p \in Procs : RegisterInsert(p)
  \/ \E p \in Procs :
        LoginSelect(p, [email |-> "admin@example.com", password |-> "adminpassword123"])
  \/ \E p \in Procs : LoginUpdate(p)
  \/ \E p \in Procs, jwtPayload \in UserClaims : GetCurrentUser(p, "direct", <<>>, jwtPayload)
  \/ \E p \in Procs, jwtPayload \in UserClaims :
        UpdateProfileDirect(p, "direct", <<>>, jwtPayload, [first_name |-> "Al"])
  \/ \E p \in Procs : AdminGetUsersCount(p, "direct", <<>>, AdminClaims, NoFields)
  \/ \E p \in Procs : AdminGetUsersSelect(p)
  \/ \E p \in Procs, userId \in {1, 2} : AdminGetUser(p, "direct", <<>>, AdminClaims, userId)
  \/ \E p \in Procs :
        AdminCreateSelect(p, "direct", <<>>, AdminClaims,
                          [email |-> "c@x.com", username |-> "carol", password |-> "password123",
                           first_name |-> Null, last_name |-> Null])
  \/ \E p \in Procs : AdminCreateInsert(p)
  \/ \E p \in Procs :
        AdminUpdateSelect(p, "direct", <<>>, AdminClaims, [id |-> 2, email_verified |-> TRUE])
  \/ \E p \in Procs : AdminUpdateUpdate(p)

SpecPublic == InitRegistered /\ [][NextPublic]_vars

\* the claims login has issued to the two administrators of InitTwoAdmins:
\* each logged in as an administrator and, demoted for a while, as a regular
\* account; the tokens live for a week
SessionClaims ==
  {[user_id |-> 1, email |-> "a@x.com", is_admin |-> b] : b \in BOOLEAN} \cup
  {[user_id |-> 2, email |-> "admin@example.com", is_admin |-> b] : b \in BOOLEAN}
LockoutPatches == {[is_admin |-> FALSE], [is_active |-> FALSE], [first_name |-> "Al"]}

\* the mutations of the admin service, called with claims issued at login
NextLockout ==
  \/ \E p \in Procs, jwtPayload \in SessionClaims, i \in {1, 2}, patch \in LockoutPatches :
        AdminUpdateSelect(p, "direct", <<>>, jwtPayload, [id |-> i] @@ patch)
  \/ \E p \in Procs : AdminUpdateUpdate(p)
  \/ \E p \in Procs, jwtPayload \in SessionClaims, userId \in {1, 2} :
        AdminDeleteSelect(p, "direct", <<>>, jwtPayload, userId)
  \/ \E p \in Procs : AdminDeleteDelete(p)
  \/ \E p \in Procs, jwtPayload \in SessionClaims :
        AdminCreateSelect(p, "direct", <<>>, jwtPayload,
                          [email |-> "b@x.com", username |-> "bob", password |-> "password123",
                           first_name |-> Null, last_name |-> Null])
  \/ \E p \in Procs : AdminCreateInsert(p)

SpecLockout == InitTwoAdmins /\ [][NextLockout]_vars

\* resetPassword with the two tokens of one account and with a token never
\* issued, as time passes
NextConsume ==
  \/ Tick
  \/ \E p \in Procs, input \in ResetPasswordInputs : ResetSelect(p, input)
  \/ \E p \in Procs : ResetUpdateUser(p)
  \/ \E p \in Procs : ResetMarkUsed(p)

SpecConsume == InitIssued /\ [][NextConsume]_vars

\* ================================================================ claims
\* the request answered in this step was answered by its first statement
AnsweredAtOnce(op) == last' # last /\ last'.op = op /\ call' = call
\* process p accepts a request for op in this step and goes on to pc
Proceeds(p, op, pc) == call[p].pc = "idle" /\ call'[p].op = op /\ call'[p].pc = pc
\* process p answers its request from pc in this step
AnswersFrom(p, pc) == call[p].pc = pc /\ call'[p].pc = "idle"

\* the plaintext an account was registered with, read off the stored secret
RegisteredWith(u, password) ==
  \E serial \in 0..rnd : u.password_hash = register_hashPassword(password, serial)
Registered(u) == \E password \in Passwords : RegisteredWith(u, password)

\* C1: login with the email and password of an account created by register
\* (still active, password unchanged) succeeds with a token carrying the
\* account's id and is_admin = false; a different password on that account
\* fails with "Invalid email or password".
C1_RegisterThenLogin ==
  [][/\ \A input \in LoginInputs :
          (AnsweredAtOnce("login") /\ last'.input = <<input>>) =>
            \A i \in DOMAIN users :
              (users[i].email = input.email /\ users[i].is_active /\ Registered(users[i])) =>
                /\ ~RegisteredWith(users[i], input.password)
                /\ last'.res[1].error = "Invalid email or password"
     /\ \A p \in Procs :
          AnswersFrom(p, "login_update") =>
            /\ last'.res[1].ok
            /\ last'.res[1].value[1].token.payload.user_id = call[p].loc[1].user.id
            /\ Registered(call[p].loc[1].user) =>
                 last'.res[1].value[1].token.payload.is_admin = FALSE
    ]_vars

\* C2: of the resetPassword calls presenting one token string at most one
\* returns success: a call never returns success for a token that another
\* call has already consumed, and never replaces the password for it again.
C2_AtMostOneWinner ==
  [][\A p \in Procs :
       /\ AnswersFrom(p, "reset_mark_used") =>
            \A i \in DOMAIN resetTokens :
              resetTokens[i].token = call[p].input[1].token => ~resetTokens[i].used
       /\ (call[p].pc = "reset_update_user" /\ call'[p].pc = "reset_mark_used") =>
            \A q \in Procs \ {p} :
              ~(call[q].pc = "reset_mark_used" /\ call[q].input[1].token = call[p].input[1].token)
    ]_vars

\* C3: a reset token is single-use.  used never goes back to false; a
\* resetPassword presenting a token string that is not stored fails with
\* "Invalid or expired reset token"; one presenting a used token fails with
\* "This reset token has already been used" and changes no account; one
\* presenting an unused token before its expiry is accepted, and when it
\* returns it returns success and the token is marked used.
C3_SingleUse ==
  [][/\ \A i \in DOMAIN resetTokens \cap DOMAIN resetTokens' :
          resetTokens[i].used => resetTokens'[i].used
     /\ AnsweredAtOnce("resetPassword") =>
          LET matching == {i \in DOMAIN resetTokens :
                             resetTokens[i].token = last'.input[1].token}
          IN  /\ ~last'.res[1].ok
              /\ users' = users /\ resetTokens' = resetTokens
              /\ matching = {} => last'.res[1].error = "Invalid or expired reset token"
              /\ \A i \in matching :
                   /\ resetTokens[i].used =>
                        last'.res[1].error = "This reset token has already been used"
                   /\ resetTokens[i].used \/ ~(now < resetTokens[i].expires_at)
     /\ \A p \in Procs :
          /\ Proceeds(p, "resetPassword", "reset_update_user") =>
               \A i \in DOMAIN resetTokens :
                 resetTokens[i].token = call'[p].input[1].token => ~resetTokens[i].used
          /\ AnswersFrom(p, "reset_mark_used") =>
               /\ last'.res[1].ok
               /\ \A i \in DOMAIN resetTokens' :
                    resetTokens'[i].token = call[p].input[1].token => resetTokens'[i].used
    ]_vars

\* C3 witness: a used token was presented again and rejected
C3_Witness ==
  /\ last.op = "resetPassword"
  /\ last.res[1].error = "This reset token has already been used"
  /\ \E i \in DOMAIN resetTokens : resetTokens[i].token = last.input[1].token /\ resetTokens[i].used

\* C4: resetPassword goes ahead only with a token that is unused and whose
\* expiry lies strictly after the current time; at or after the expiry an
\* unused token is rejected with "Reset token has expired" and nothing changes.
C4_ExpiredAtOrAfterExpiry ==
  [][/\ \A p \in Procs :
          Proceeds(p, "resetPassword", "reset_update_user") =>
            LET resetToken == call'[p].loc[1].resetToken
            IN  ~resetToken.used /\ now < resetToken.expires_at
     /\ AnsweredAtOnce("resetPassword") =>
          \A i \in DOMAIN resetTokens :
            (/\ resetTokens[i].token = last'.input[1].token
             /\ ~resetTokens[i].used /\ now >= resetTokens[i].expires_at) =>
               /\ last'.res[1].error = "Reset token has expired"
               /\ users' = users /\ resetTokens' = resetTokens
    ]_vars

\* C5: no two accounts share an email and no two accounts share a username.
C5_UniqueIdentities ==
  \A i, j \in DOMAIN users :
    i # j => users[i].email # users[j].email /\ users[i].username # users[j].username

\* C5 witness: a writer that had passed its pre-check was stopped by the store
C5_Witness ==
  /\ last.res # <<>>
  /\ last.res[1].error = StoreUniqueViolation
  /\ Cardinality(DOMAIN users) >= 2

\* the errors the uniqueness pre-checks raise
ConflictErrors ==
  {"User with this email already exists", "User with this username already exists",
   "Email already exists", "Username already exists"}

\* C6: a writer that passed its pre-check and then collides at the store
\* fails with the 'already exists' error of the pre-check, and no row is
\* written.
C6_RaceEndsInConflict ==
  [][\A p \in Procs :
       (/\ call[p].pc \in {"register_insert", "admin_create_insert",
                           "update_profile_update", "admin_update_update"}
        /\ call'[p].pc = "idle"
        /\ ~last'.res[1].ok
        /\ call[p].op \in {"updateProfile"} => call[p].claims[1].user_id \in DOMAIN users
        /\ call[p].op \in {"adminUpdateUser"} => call[p].input[1].id \in DOMAIN users) =>
          /\ last'.res[1].error \in ConflictErrors
          /\ users' = users
    ]_vars

\* the claims a session token carries
ClaimsOf(payload) ==
  [user_id |-> payload.user_id, email |-> payload.email, is_admin |-> payload.is_admin]

\* C7: an authenticated route hands a request to its handler only when the
\* request carries a session token that verifyJWT accepts, and the claims
\* the handler gets are the ones of that token.
C7_RouteVerifiesToken ==
  [][\A p \in Procs :
       /\ (call[p].pc = "idle" /\ call'[p].pc # "idle" /\ call'[p].via = "route") =>
            /\ call'[p].bearer # <<>>
            /\ verifyJWT(call'[p].bearer[1], login_jwtSecret).ok
            /\ call'[p].claims = <<ClaimsOf(call'[p].bearer[1].payload)>>
       /\ (last' # last /\ call' = call /\ last'.via = "route"
             /\ last'.res[1].error # "Admin access required") =>
            /\ last'.bearer # <<>>
            /\ verifyJWT(last'.bearer[1], login_jwtSecret).ok
            /\ last'.claims = <<ClaimsOf(last'.bearer[1].payload)>>
    ]_vars

AdminOps ==
  {"adminGetUsers", "adminGetUser", "adminCreateUser", "adminUpdateUser", "adminDeleteUser"}
UnauthorizedErrors ==
  {"Access denied: Admin privileges required", "Unauthorized: Admin access required",
   "Unauthorized: Admin privileges required", "Access denied. Admin privileges required."}

\* C8: an admin operation called with claims whose is_admin is false is
\* answered at once with the operation's admin-privileges error and no data,
\* and changes no account and no reset token; it never gets past that check.
C8_NonAdminUnauthorized ==
  [][/\ \A p \in Procs :
          (call'[p].op \in AdminOps /\ call'[p].pc # "idle") => call'[p].claims[1].is_admin
     /\ \A op \in AdminOps :
          (last' # last /\ last'.op = op /\ ~last'.claims[1].is_admin) =>
            /\ call' = call
            /\ last'.res[1].error \in UnauthorizedErrors
            /\ last'.res[1].value = <<>>
            /\ users' = users /\ resetTokens' = resetTokens
    ]_vars

\* C8 witness: a non-admin asked to delete an existing account and was refused
C8_Witness ==
  /\ last.op = "adminDeleteUser"
  /\ ~last.claims[1].is_admin
  /\ last.input[1].id \in DOMAIN users
  /\ last.res[1].error \in UnauthorizedErrors

SelfDemotionError == "Cannot remove admin privileges from your own account"
IsSelfDemotion(claims, input) ==
  claims[1].is_admin /\ input[1].id = claims[1].user_id
  /\ Has(input[1], "is_admin") /\ input[1].is_admin = FALSE

IsSelfUpdate(claims, input) == claims[1].is_admin /\ input[1].id = claims[1].user_id

\* C9 as stated: adminUpdateUser on the caller's own id with is_admin=false
\* fails with the self-demotion error and changes nothing; a self-update
\* without is_admin=false that returns leaves is_admin=true.
C9_SelfDemotionForbidden ==
  [][/\ \A p \in Procs :
          (call'[p].op = "adminUpdateUser" /\ call'[p].pc # "idle") =>
            ~IsSelfDemotion(call'[p].claims, call'[p].input)
     /\ (last' # last /\ last'.op = "adminUpdateUser"
           /\ IsSelfDemotion(last'.claims, last'.input)) =>
          /\ last'.res[1].error = SelfDemotionError
          /\ users' = users
     /\ \A p \in Procs :
          (AnswersFrom(p, "admin_update_update") /\ IsSelfUpdate(call[p].claims, call[p].input)
             /\ last'.res[1].ok) =>
            users'[call[p].input[1].id].is_admin
    ]_vars

\* C9 as amended: the self-demoting call changes nothing and fails with the
\* self-demotion error when the account exists and with "User not found"
\* when it does not, and never gets past that check; a self-update without
\* is_admin=false is turned away at once only when the account does not
\* exist, and when it returns success is_admin is true if the patch set it
\* and as it was if the patch omitted it.
C9_Amended ==
  [][/\ \A p \in Procs :
          (call'[p].op = "adminUpdateUser" /\ call'[p].pc # "idle") =>
            ~IsSelfDemotion(call'[p].claims, call'[p].input)
     /\ (last' # last /\ last'.op = "adminUpdateUser"
           /\ IsSelfDemotion(last'.claims, last'.input)) =>
          /\ call' = call
          /\ users' = users
          /\ last'.res[1].error = IF last'.input[1].id \in DOMAIN users
                                  THEN SelfDemotionError ELSE "User not found"
     /\ (AnsweredAtOnce("adminUpdateUser") /\ IsSelfUpdate(last'.claims, last'.input)
           /\ ~IsSelfDemotion(last'.claims, last'.input)) =>
          /\ last'.res[1].error = "User not found"
          /\ last'.input[1].id \notin DOMAIN users
     /\ \A p \in Procs :
          (AnswersFrom(p, "admin_update_update") /\ IsSelfUpdate(call[p].claims, call[p].input)
             /\ last'.res[1].ok) =>
            LET input == call[p].input[1]
            IN  users'[input.id].is_admin =
                  IF Has(input, "is_admin") THEN TRUE ELSE users[input.id].is_admin
    ]_vars

\* C9 witness: an existing admin tried to demote itself and was refused
C9_Witness ==
  /\ last.op = "adminUpdateUser"
  /\ IsSelfDemotion(last.claims, last.input)
  /\ last.input[1].id \in DOMAIN users
  /\ users[last.input[1].id].is_admin
  /\ last.res[1].error = SelfDemotionError

\* C10: adminDeleteUser(id) by an admin fails with "Cannot delete your own
\* account." when id is the caller's id, whether or not the account exists,
\* and with "User not found." when no account has the id; both leave every
\* account in place.  Otherwise it goes on to delete, and the delete removes
\* the account with that id and no other.
C10_DeleteUser ==
  [][/\ (AnsweredAtOnce("adminDeleteUser") /\ last'.claims[1].is_admin) =>
          LET id == last'.input[1].id
          IN  /\ users' = users
              /\ last'.res[1].error = IF id = last'.claims[1].user_id
                                      THEN "Cannot delete your own account."
                                      ELSE "User not found."
              /\ id # last'.claims[1].user_id => id \notin DOMAIN users
     /\ \A p \in Procs :
          /\ Proceeds(p, "adminDeleteUser", "delete_user") =>
               /\ call'[p].input[1].id # call'[p].claims[1].user_id
               /\ call'[p].input[1].id \in DOMAIN users
          /\ AnswersFrom(p, "delete_user") =>
               /\ last'.res[1].ok
               /\ DOMAIN users' = DOMAIN users \ {call[p].input[1].id}
               /\ \A i \in DOMAIN users' : users'[i] = users[i]
          /\ (call[p].op = "adminDeleteUser" /\ call[p].pc # "delete_user") =>
               DOMAIN users \subseteq DOMAIN users'
    ]_vars

\* C10 witness: an account was deleted and a second delete of its id was
\* answered "User not found."
C10_Witness ==
  /\ last.op = "adminDeleteUser"
  /\ last.res[1].error = "User not found."
  /\ last.input[1].id < nextUserId
  /\ last.input[1].id \notin DOMAIN users

\* the accounts a login with this input matches, and whether it may go on
LoginMatches(input) == {i \in DOMAIN users : users[i].email = input.email}
LoginVerifies(input, i) == login_verifyPassword(input.password, users[i].password_hash)

\* C11: a login whose email matches no account and a login whose password
\* does not verify against the matched account get the identical failure,
\* "Invalid email or password", and nothing else.
C11_SameInvalidCredentials ==
  [][AnsweredAtOnce("login") =>
       LET input == last'.input[1]
       IN  /\ LoginMatches(input) = {} =>
                last'.res[1] = Failure("Invalid email or password")
           /\ \A i \in LoginMatches(input) :
                ~LoginVerifies(input, i) =>
                  last'.res[1] = Failure("Invalid email or password")
    ]_vars

\* C11 witness: a wrong password for an existing account was turned away
C11_Witness ==
  /\ last.op = "login"
  /\ LoginMatches(last.input[1]) # {}
  /\ \A i \in LoginMatches(last.input[1]) : ~LoginVerifies(last.input[1], i)
  /\ last.res[1] = Failure("Invalid email or password")

\* C12: a login with the right password for an account that is inactive
\* when the login reads it fails with "Account is inactive", returns no
\* token and changes nothing; only a login that read an active account goes
\* on to the update of last_login and updated_at.
C12_InactiveRejected ==
  [][/\ AnsweredAtOnce("login") =>
          \A i \in LoginMatches(last'.input[1]) :
            (LoginVerifies(last'.input[1], i) /\ ~users[i].is_active) =>
              /\ last'.res[1] = Failure("Account is inactive")
              /\ users' = users /\ resetTokens' = resetTokens
     /\ \A p \in Procs :
          Proceeds(p, "login", "login_update") =>
            /\ call'[p].loc[1].user.is_active
            /\ users[call'[p].loc[1].user.id].is_active
            /\ users' = users
    ]_vars

\* C12 witness: the seeded account was switched off and its owner, with the
\* right password, was refused
C12_Witness ==
  /\ last.op = "login"
  /\ last.res[1].error = "Account is inactive"
  /\ \E i \in LoginMatches(last.input[1]) :
       LoginVerifies(last.input[1], i) /\ ~users[i].is_active /\ users[i].last_login = <<>>

\* C13: the update of a successful login sets last_login and updated_at of
\* the matched account to the time the login read the clock, after its
\* checks, and changes nothing else; the statements before it, and a login
\* that fails, change nothing.
C13_LoginFrame ==
  [][/\ \A p \in Procs :
          /\ AnswersFrom(p, "login_update") =>
               LET id == call[p].loc[1].user.id
                   t == call[p].loc[1].now
               IN  /\ last'.res[1].ok
                   /\ id \in DOMAIN users
                   /\ users' = [users EXCEPT ![id].last_login = <<t>>,
                                             ![id].updated_at = t]
                   /\ resetTokens' = resetTokens
          /\ Proceeds(p, "login", "login_update") =>
               /\ call'[p].loc[1].now = now
               /\ users' = users /\ resetTokens' = resetTokens
     /\ (last' # last /\ last'.op = "login" /\ ~last'.res[1].ok) =>
          users' = users /\ resetTokens' = resetTokens
    ]_vars

\* C13 witness: a login succeeded after the clock had moved on
C13_Witness ==
  /\ last.op = "login"
  /\ last.res[1].ok
  /\ now > 0
  /\ \E i \in DOMAIN users :
       /\ i = last.res[1].value[1].user.id
       /\ users[i].last_login # <<>>
       /\ users[i].updated_at = users[i].last_login[1]
       /\ users[i].updated_at > users[i].created_at

\* the step answers a verifyJWT call
Verified == last' # last /\ last'.op = "verifyJWT"
\* the token is signed the way verifyJWT expects with the secret of the process
CorrectlySigned(token) ==
  token.signature = <<"sha256", token.header, token.payload, login_jwtSecret>>

\* C14: a token that register or login has just returned, verified with the
\* secret of the process before its expiry, is accepted and yields the user
\* id, email and admin flag of the account it was issued for; a token whose
\* signature does not match is rejected.
C14_TokenRoundTrip ==
  [][Verified =>
       LET token == last'.bearer[1]
       IN  /\ (/\ last.op \in {"register", "login"} /\ last.res # <<>> /\ last.res[1].ok
               /\ token = last.res[1].value[1].token
               /\ now < token.payload.exp) =>
                 LET user == last.res[1].value[1].user
                 IN  /\ last'.res[1].ok
                     /\ ClaimsOf(last'.res[1].value[1]) =
                          [user_id |-> user.id, email |-> user.email,
                           is_admin |-> user.is_admin]
           /\ ~CorrectlySigned(token) => ~last'.res[1].ok
    ]_vars

\* C15: verifyJWT returns the claims of a correctly signed token only while
\* now < exp; at and after exp it fails with "Token expired".
C15_ExpiredAtOrAfterExp ==
  [][Verified =>
       LET token == last'.bearer[1]
       IN  CorrectlySigned(token) =>
             IF now < token.payload.exp
             THEN last'.res[1].ok /\ last'.res[1].value[1] = token.payload
             ELSE last'.res[1] = Failure("Token expired")
    ]_vars

\* the plaintext the secret of account u was last set to by resetPassword
\* or by changePassword, read off the stored secret
ReplacedWith(u, password) ==
  \E serial \in 0..rnd :
    \/ u.password_hash = resetPassword_hash(password, serial)
    \/ u.password_hash = createPasswordHash(password, serial)

\* C16: once resetPassword or changePassword has replaced the secret of an
\* active account and returned, a login with the account's email fails at its first
\* statement only with a password other than the new one, with "Invalid
\* email or password"; with the new password it goes on to succeed.
C16_LoginAfterReplace ==
  [][AnsweredAtOnce("login") =>
       LET input == last'.input[1]
       IN  \A i \in LoginMatches(input) :
             (/\ users[i].is_active
              /\ \E password \in Passwords : ReplacedWith(users[i], password)
              /\ \A q \in Procs : call[q].op \notin {"resetPassword", "changePassword"}) =>
               /\ ~ReplacedWith(users[i], input.password)
               /\ last'.res[1] = Failure("Invalid email or password")
    ]_vars

\* C17: every reset token is owned by an existing account; the delete of
\* adminDeleteUser removes the tokens of the deleted account, all of them
\* and no others, so that neither the owner nor any of their token strings
\* is found among the stored tokens afterwards.
C17_TokensFollowOwner ==
  [][/\ \A i \in DOMAIN resetTokens' : resetTokens'[i].user_id \in DOMAIN users'
     /\ \A p \in Procs :
          AnswersFrom(p, "delete_user") =>
            LET id == call[p].input[1].id
                owned == {i \in DOMAIN resetTokens : resetTokens[i].user_id = id}
            IN  /\ DOMAIN resetTokens' = DOMAIN resetTokens \ owned
                /\ \A i \in DOMAIN resetTokens' : resetTokens'[i] = resetTokens[i]
                /\ \A i \in DOMAIN resetTokens', j \in owned :
                     /\ resetTokens'[i].user_id # id
                     /\ resetTokens'[i].token # resetTokens[j].token
    ]_vars

\* C17 witness: alice was deleted while she and the administrator each owned
\* a reset token; hers is gone, the other one is still stored
C17_Witness ==
  /\ last.op = "adminDeleteUser"
  /\ last.res[1].ok
  /\ last.input[1].id \notin DOMAIN users
  /\ nextTokenId = 3
  /\ Cardinality(DOMAIN resetTokens) = 1
  /\ \A i \in DOMAIN resetTokens : resetTokens[i].user_id = 1

EmailTaken(email) == \E i \in DOMAIN users : users[i].email = email
UsernameTaken(username) == \E i \in DOMAIN users : users[i].username = username

\* C19: register, and adminCreateUser called by an administrator, given an
\* email or a username that an account already holds, fail at once with the
\* 'already exists' error naming a field that collides, and change nothing;
\* they go on to the insert only when neither is held.
C19_ConflictOnCreate ==
  [][/\ AnsweredAtOnce("register") =>
          LET input == last'.input[1]
          IN  /\ users' = users /\ nextUserId' = nextUserId
              /\ \/ /\ last'.res[1] = Failure("User with this email already exists")
                    /\ EmailTaken(input.email)
                 \/ /\ last'.res[1] = Failure("User with this username already exists")
                    /\ UsernameTaken(input.username)
     /\ (AnsweredAtOnce("adminCreateUser") /\ last'.claims[1].is_admin) =>
          LET input == last'.input[1]
          IN  /\ users' = users /\ nextUserId' = nextUserId
              /\ \/ /\ last'.res[1] = Failure("Email already exists")
                    /\ EmailTaken(input.email)
                 \/ /\ last'.res[1] = Failure("Username already exists")
                    /\ UsernameTaken(input.username)
     /\ \A p \in Procs :
          (\/ Proceeds(p, "register", "register_insert")
           \/ Proceeds(p, "adminCreateUser", "admin_create_insert")) =>
            /\ ~EmailTaken(call'[p].input[1].email)
            /\ ~UsernameTaken(call'[p].input[1].username)
            /\ users' = users
    ]_vars

\* C19 witness: a registration with a fresh email and the username of an
\* account was refused
C19_Witness ==
  /\ last.op = "register"
  /\ last.res[1] = Failure("User with this username already exists")
  /\ ~EmailTaken(last.input[1].email)
  /\ UsernameTaken(last.input[1].username)

\* the step answers an updateProfile call
ProfileAnswered == last' # last /\ last'.op = "updateProfile"
\* the frame of updateProfile: the accounts are the same ones, every account
\* but the caller's is as it was, and a call that fails changes nothing
ProfileFrame ==
  LET id == last'.claims[1].user_id
  IN  /\ DOMAIN users' = DOMAIN users
      /\ \A i \in DOMAIN users : i # id => users'[i] = users[i]
      /\ ~last'.res[1].ok => users' = users
      /\ nextUserId' = nextUserId /\ resetTokens' = resetTokens
\* the effect of a successful updateProfile: the fields of the patch are set
\* to its values, updated_at moves, every other field is as it was
ProfileEffect ==
  LET id == last'.claims[1].user_id
      input == last'.input[1]
  IN  last'.res[1].ok =>
        /\ id \in DOMAIN users
        /\ \A f \in DOMAIN users[id] :
             IF f \in {"username", "email", "first_name", "last_name"} /\ Has(input, f)
             THEN users'[id][f] = input[f]
             ELSE f # "updated_at" => users'[id][f] = users[id][f]
        /\ users'[id].updated_at \in 0..now
        /\ last'.res[1].value[1] = PublicUser(users'[id])

\* C20 as stated: updateProfile changes only the caller's account, only the
\* fields of the patch plus updated_at, and fails with "User not found" when
\* no account has the id of the claims.
C20_UpdateProfileFrame ==
  [][ProfileAnswered =>
       /\ ProfileFrame
       /\ ProfileEffect
       /\ last'.claims[1].user_id \notin DOMAIN users =>
            last'.res[1] = Failure("User not found")
    ]_vars

\* C20 as amended: as stated, but when no account has the id of the claims
\* the call fails with "User not found" only if the patch names no username
\* and no email held by an account; if it does, the pre-check fails first
\* with the 'already exists' error of that field.
C20_Amended ==
  [][/\ ProfileAnswered =>
          /\ ProfileFrame
          /\ ProfileEffect
          /\ last'.claims[1].user_id \notin DOMAIN users =>
               LET input == last'.input[1]
                   usernameHeld == Has(input, "username") /\ UsernameTaken(input.username)
                   emailHeld == Has(input, "email") /\ EmailTaken(input.email)
               IN  \/ /\ last'.res[1] = Failure("User not found")
                      /\ AnsweredAtOnce("updateProfile") => ~usernameHeld /\ ~emailHeld
                   \/ last'.res[1] = Failure("Username already exists") /\ usernameHeld
                   \/ last'.res[1] = Failure("Email already exists") /\ emailHeld
     /\ \A p \in Procs :
          Proceeds(p, "updateProfile", "update_profile_update") => users' = users
    ]_vars

\* C20 witness: an account cleared its first name and set its last name, and
\* later sent an empty patch, which moved updated_at only
C20_Witness ==
  /\ last.op = "updateProfile"
  /\ last.res[1].ok
  /\ last.input[1] = NoFields
  /\ LET u == users[last.claims[1].user_id]
     IN  /\ u.first_name = Null /\ u.last_name = "Lee"
         /\ u.updated_at > u.created_at
         /\ ~u.is_admin /\ u.is_active

\* does an account other than id hold this email, this username
EmailOfOther(id, email) == \E i \in DOMAIN users : i # id /\ users[i].email = email
UsernameOfOther(id, username) ==
  \E i \in DOMAIN users : i # id /\ users[i].username = username
\* the patch names an email or a username that an account other than id holds
PatchCollides(id, input) ==
  \/ Has(input, "email") /\ EmailOfOther(id, input.email)
  \/ Has(input, "username") /\ UsernameOfOther(id, input.username)

\* C21: updateProfile, and adminUpdateUser called by an administrator for an
\* existing target, fail with the 'already exists' error naming a colliding
\* field when the uniqueness check finds the patch's email or username on a
\* different account, and change nothing; they skip or pass the check only
\* when no different account holds the value, and a patch that reaches the
\* update with no different account holding its email or username (as one
\* that repeats the target's own) is written and answered with success.
C21_ConflictOnUpdate ==
  [][/\ (AnsweredAtOnce("updateProfile") /\ ~last'.res[1].ok /\
           (Has(last'.input[1], "email") \/ Has(last'.input[1], "username"))) =>
          LET input == last'.input[1]
              id == last'.claims[1].user_id
          IN  /\ users' = users
              /\ \/ /\ last'.res[1] = Failure("Email already exists")
                    /\ Has(input, "email") /\ EmailOfOther(id, input.email)
                 \/ /\ last'.res[1] = Failure("Username already exists")
                    /\ Has(input, "username") /\ UsernameOfOther(id, input.username)
     /\ \A p \in Procs :
          /\ Proceeds(p, "updateProfile", "update_profile_update") =>
               /\ ~PatchCollides(call'[p].claims[1].user_id, call'[p].input[1])
               /\ users' = users
          /\ (call[p].pc = "idle" /\ call'[p].op = "adminUpdateUser" /\ call'[p].pc # "idle") =>
               LET input == call'[p].input[1]
               IN  /\ users' = users
                   /\ call'[p].pc = "admin_update_update" =>
                        ~PatchCollides(input.id, input)
          /\ (call[p].pc = "admin_update_email_check" /\ call'[p] # call[p]) =>
               LET input == call[p].input[1]
               IN  /\ users' = users
                   /\ IF EmailOfOther(input.id, input.email)
                      THEN /\ call'[p].pc = "idle"
                           /\ last'.res[1] = Failure("Email already exists")
                      ELSE call'[p].pc \in {"admin_update_username_check",
                                            "admin_update_update"}
          /\ (call[p].pc = "admin_update_username_check" /\ call'[p] # call[p]) =>
               LET input == call[p].input[1]
               IN  /\ users' = users
                   /\ IF UsernameOfOther(input.id, input.username)
                      THEN /\ call'[p].pc = "idle"
                           /\ last'.res[1] = Failure("Username already exists")
                      ELSE call'[p].pc = "admin_update_update"
          /\ (call[p].pc \in {"update_profile_update", "admin_update_update"} /\
                call'[p].pc = "idle") =>
               LET input == call[p].input[1]
                   id == IF call[p].op = "updateProfile"
                         THEN call[p].claims[1].user_id ELSE input.id
               IN  (id \in DOMAIN users /\ ~PatchCollides(id, input)) =>
                     /\ last'.res[1].ok
                     /\ Has(input, "email") => users'[id].email = input.email
                     /\ Has(input, "username") => users'[id].username = input.username
    ]_vars

\* C21 witness: an administrator's patch that gave one account the username
\* of another was refused, after a patch with a free username had been written
C21_Witness ==
  /\ last.op = "adminUpdateUser"
  /\ last.res[1] = Failure("Username already exists")
  /\ UsernameOfOther(last.input[1].id, last.input[1].username)
  /\ \E i \in DOMAIN users : users[i].username = "bob"

\* the secret was created from this plaintext by one of the operations that
\* store a secret: createAdminUser, register, adminCreateUser, resetPassword
\* or changePassword
CreatedFrom(secret, password) ==
  \E serial \in 0..rnd :
    secret \in {login_hashPassword(password, serial),
                register_hashPassword(password, serial),
                adminCreateUser_hash(password, serial),
                resetPassword_hash(password, serial),
                createPasswordHash(password, serial)}

\* C22: changePassword fails with "User not found" when no account has the
\* id of the claims and with "User account is deactivated" when the account
\* is inactive; for an active account it fails, with "Current password is
\* incorrect", only when current_password is not the plaintext the stored
\* secret was created from, and goes on to the update when it is; a call
\* that fails changes no account.
C22_ChangePassword ==
  [][/\ AnsweredAtOnce("changePassword") =>
          LET id == last'.claims[1].user_id
              input == last'.input[1]
          IN  /\ ~last'.res[1].ok
              /\ users' = users
              /\ IF id \notin DOMAIN users
                 THEN last'.res[1] = Failure("User not found")
                 ELSE IF ~users[id].is_active
                 THEN last'.res[1] = Failure("User account is deactivated")
                 ELSE /\ last'.res[1] = Failure("Current password is incorrect")
                      /\ ~CreatedFrom(users[id].password_hash, input.current_password)
     /\ \A p \in Procs :
          Proceeds(p, "changePassword", "change_password_update") =>
            LET id == call'[p].claims[1].user_id
            IN  /\ id \in DOMAIN users /\ users[id].is_active
                /\ CreatedFrom(users[id].password_hash, call'[p].input[1].current_password)
                /\ users' = users
    ]_vars

\* C23: the updated_at of an account never decreases, whatever the order in
\* which the statements of login, updateProfile, changePassword,
\* resetPassword and adminUpdateUser run.
C23_UpdatedAtMonotone ==
  [][\A i \in DOMAIN users \cap DOMAIN users' :
       users'[i].updated_at >= users[i].updated_at]_vars

\* C24: adminGetUsers called by an administrator with a page and a limit
\* that paginationInputSchema accepts counts the stored accounts and then
\* answers with that total, total_pages = ceil(total / limit) (0 for an empty
\* store), the page and limit of the input (1 and 10 when left out), and at
\* most limit accounts, all stored, none twice and none with a secret; while
\* the number of accounts is the one counted, the list holds the rows left
\* after (page - 1) * limit, so none for a page beyond total_pages; the call
\* does not fail and changes nothing.
C24_ListUsers ==
  [][\A p \in Procs :
       /\ (Proceeds(p, "adminGetUsers", "admin_get_users_select")) =>
            /\ call'[p].loc[1].total = Cardinality(DOMAIN users)
            /\ users' = users /\ resetTokens' = resetTokens
       /\ (AnswersFrom(p, "admin_get_users_select") /\
             paginationInputSchema(call[p].input[1])) =>
            LET input == call[p].input[1]
                v == last'.res[1].value[1]
                rest == v.total - (v.page - 1) * v.limit
            IN  /\ last'.res[1].ok
                /\ v.total = call[p].loc[1].total
                /\ v.page = (IF Has(input, "page") THEN input.page ELSE 1)
                /\ v.limit = (IF Has(input, "limit") THEN input.limit ELSE 10)
                /\ v.total_pages * v.limit >= v.total
                /\ (v.total_pages - 1) * v.limit < v.total
                /\ v.total = 0 => v.total_pages = 0
                /\ Len(v.users) <= v.limit
                /\ \A k \in DOMAIN v.users :
                     /\ v.users[k].id \in DOMAIN users
                     /\ v.users[k] = PublicUser(users[v.users[k].id])
                     /\ \A j \in DOMAIN v.users : j # k => v.users[j].id # v.users[k].id
                /\ Cardinality(DOMAIN users) = v.total =>
                     /\ Len(v.users) = (IF rest <= 0 THEN 0
                                        ELSE IF rest < v.limit THEN rest ELSE v.limit)
                     /\ v.page > v.total_pages => v.users = <<>>
                /\ users' = users /\ resetTokens' = resetTokens
    ]_vars

\* C24 witness: page 5 with limit 5 of a store of two accounts is an empty
\* list with total 2 and total_pages 1
C24_Witness ==
  /\ last.op = "adminGetUsers"
  /\ last.input[1] = [page |-> 5, limit |-> 5]
  /\ last.res[1].ok
  /\ last.res[1].value[1].users = <<>>
  /\ last.res[1].value[1].total = 2
  /\ last.res[1].value[1].total_pages = 1
  /\ Cardinality(DOMAIN users) = 2

\* C25: adminGetUsers called by an administrator never fails on its
\* pagination input and applies and returns a page of at least 1 and a limit
\* from 1 to 100, whatever page and limit it was given.
C25_PaginationClamped ==
  [][\A p \in Procs :
       AnswersFrom(p, "admin_get_users_select") =>
         /\ last'.res[1].ok
         /\ last'.res[1].value[1].page >= 1
         /\ last'.res[1].value[1].limit >= 1
         /\ last'.res[1].value[1].limit <= PaginationMaxLimit
    ]_vars

\* the operations that return accounts, and the accounts in a response
PublicOps ==
  {"register", "login", "getCurrentUser", "updateProfile", "adminGetUsers", "adminGetUser",
   "adminCreateUser", "adminUpdateUser"}
ReturnedAccounts(r) ==
  LET v == r.res[1].value[1]
  IN  IF r.op \in {"register", "login"} THEN {v.user}
      ELSE IF r.op = "adminGetUsers" THEN {v.users[k] : k \in DOMAIN v.users}
      ELSE {v}
PublicColumns ==
  {"id", "email", "username", "first_name", "last_name", "is_admin", "is_active",
   "email_verified", "last_login", "created_at", "updated_at"}

\* C26: a value returned by register, login, getCurrentUser, updateProfile,
\* adminGetUsers, adminGetUser, adminCreateUser or adminUpdateUser holds, of
\* each account in it, the public columns and not the password secret; the
\* token next to the account of register and login carries id, email, admin
\* flag and the two times.
C26_NoSecretReturned ==
  (last.op \in PublicOps /\ last.res[1].ok) =>
    /\ \A a \in ReturnedAccounts(last) :
         /\ "password_hash" \notin DOMAIN a
         /\ DOMAIN a = PublicColumns
    /\ last.op \in {"register", "login"} =>
         DOMAIN last.res[1].value[1].token.payload =
           {"user_id", "email", "is_admin", "iat", "exp"}

\* C26 witness: an administrator listed the accounts and got both of them
C26_Witness ==
  /\ last.op = "adminGetUsers"
  /\ last.res[1].ok
  /\ Len(last.res[1].value[1].users) = 2
  /\ \A i \in DOMAIN users : users[i].password_hash # <<>>

\* C27 as stated: an account with is_admin = true exists after any sequence
\* of adminUpdateUser and adminDeleteUser calls made under claims issued at
\* login.
C27_AdminRemains == \E i \in DOMAIN users : users[i].is_admin

\* C27 as amended: the write of adminUpdateUser or adminDeleteUser does not
\* demote or delete the account named by the caller's claims; when that
\* account is stored with is_admin = true as the call writes, it is so
\* afterwards, and an administrator remains.
C27_Amended ==
  [][\A p \in Procs :
       (/\ call[p].pc \in {"admin_update_update", "delete_user"}
        /\ call'[p].pc = "idle"
        /\ call[p].claims[1].user_id \in DOMAIN users
        /\ users[call[p].claims[1].user_id].is_admin) =>
         /\ call[p].claims[1].user_id \in DOMAIN users'
         /\ users'[call[p].claims[1].user_id].is_admin
         /\ \E i \in DOMAIN users' : users'[i].is_admin
    ]_vars

\* C27 witness: an administrator has demoted the other one and is the only
\* administrator left
C27_Witness ==
  /\ last.op = "adminUpdateUser"
  /\ last.res[1].ok
  /\ last.input[1].id # last.claims[1].user_id
  /\ Has(last.input[1], "is_admin")
  /\ DOMAIN users = {1, 2}
  /\ users[last.claims[1].user_id].is_admin
  /\ ~users[last.input[1].id].is_admin

\* the mutations of the admin service and the statements that write for them
AdminMutations == {"adminCreateUser", "adminUpdateUser", "adminDeleteUser"}
AdminWrites == {"admin_create_insert", "admin_update_update", "delete_user"}

\* C28 as stated: when adminCreateUser, adminUpdateUser or adminDeleteUser
\* succeeds, the account named by the caller's claims is stored with
\* is_admin = true and is_active = true at that moment.
C28_CallerIsStoredAdmin ==
  [][\A p \in Procs :
       (call[p].pc \in AdminWrites /\ call'[p].pc = "idle" /\ last'.res[1].ok) =>
         LET id == call[p].claims[1].user_id
         IN  /\ id \in DOMAIN users
             /\ users[id].is_admin
             /\ users[id].is_active
    ]_vars

\* C28 as amended: when adminCreateUser, adminUpdateUser or adminDeleteUser
\* succeeds, the claims it was called with carry is_admin = true; the call
\* is refused as unauthorized exactly when they do not, whatever the store
\* holds about the caller.
C28_Amended ==
  [][/\ \A p \in Procs :
          /\ (call[p].pc \in AdminWrites /\ call'[p].pc = "idle" /\ last'.res[1].ok) =>
               call[p].claims[1].is_admin
          /\ (call[p].pc = "idle" /\ call'[p].pc # "idle" /\ call'[p].op \in AdminMutations) =>
               call'[p].claims[1].is_admin
     /\ \A op \in AdminMutations :
          AnsweredAtOnce(op) =>
            (last'.res[1].error \in UnauthorizedErrors <=> ~last'.claims[1].is_admin)
    ]_vars

\* C28 witness: an account was created under the claims of an administrator
\* whose account had been deleted
C28_Witness ==
  /\ last.op = "adminCreateUser"
  /\ last.res[1].ok
  /\ last.claims[1].is_admin
  /\ last.claims[1].user_id \notin DOMAIN users

\* C29: resetPassword answers with success only when the account that owns
\* the token exists and this call has written its secret, and the token is
\* stored as used afterwards; a call whose token's owner is deleted before
\* one of its two updates does not answer with success.
C29_ResetOnlyForOwner ==
  [][\A p \in Procs :
       /\ (call[p].pc = "reset_update_user" /\ call'[p].pc = "reset_mark_used") =>
            LET l == call[p].loc[1]
            IN  /\ l.resetToken.user_id \in DOMAIN users
                /\ users'[l.resetToken.user_id].password_hash = l.passwordWithSalt
       /\ (AnswersFrom(p, "reset_mark_used") /\ last'.res[1].ok) =>
            LET t == call[p].loc[1].resetToken
            IN  /\ t.user_id \in DOMAIN users'
                /\ \E i \in DOMAIN resetTokens' :
                     resetTokens'[i].id = t.id /\ resetTokens'[i].used
    ]_vars

\* the stored tokens with this token string
TokensWith(token) == {i \in DOMAIN resetTokens : resetTokens[i].token = token}

\* C30: the first update of resetPassword changes the password secret and
\* updated_at of the account that owns the presented token, and nothing
\* else; its second update sets the used flag of the presented token, and
\* nothing else; every other token, also of the same account, keeps its used
\* flag and its expiry, and a resetPassword that presents one of them while
\* it is unused and not expired is not turned away.
C30_ResetFrame ==
  [][/\ \A p \in Procs :
          /\ (call[p].pc = "reset_update_user" /\ call'[p].pc = "reset_mark_used") =>
               LET id == call[p].loc[1].resetToken.user_id
               IN  /\ resetTokens' = resetTokens
                   /\ DOMAIN users' = DOMAIN users
                   /\ \A i \in DOMAIN users :
                        IF i = id
                        THEN \A f \in DOMAIN users[i] \ {"password_hash", "updated_at"} :
                               users'[i][f] = users[i][f]
                        ELSE users'[i] = users[i]
          /\ AnswersFrom(p, "reset_mark_used") =>
               LET t == call[p].loc[1].resetToken
               IN  /\ users' = users
                   /\ DOMAIN resetTokens' = DOMAIN resetTokens
                   /\ \A i \in DOMAIN resetTokens :
                        resetTokens'[i] = IF resetTokens[i].id = t.id
                                          THEN [resetTokens[i] EXCEPT !.used = TRUE]
                                          ELSE resetTokens[i]
     /\ AnsweredAtOnce("resetPassword") =>
          /\ ~last'.res[1].ok
          /\ users' = users /\ resetTokens' = resetTokens
          /\ \A i \in TokensWith(last'.input[1].token) :
               resetTokens[i].used \/ resetTokens[i].expires_at < now
    ]_vars

\* C30 witness: both tokens of the account have been consumed, each by a
\* resetPassword that succeeded; the other account is as seeded
C30_Witness ==
  /\ last.op = "resetPassword"
  /\ last.res[1].ok
  /\ Cardinality(DOMAIN resetTokens) = 2
  /\ \A i \in DOMAIN resetTokens : resetTokens[i].used /\ resetTokens[i].user_id = 2
  /\ \A p \in Procs : call[p].pc = "idle"
  /\ served = 2
  /\ \E serial \in 0..rnd :
       users[2].password_hash = resetPassword_hash("password123", serial)
  /\ users[1] = createAdminUser

====
